---------------------------- MODULE Spec2Model ----------------------------
(***************************************************************************)
(* A model of the spiggy backend: the rate-limiting wrapper use_key and    *)
(* the snapshot acquisition get_active_auctions of SkyblockAPI, and the    *)
(* caching loops and aggregation buffers of AuctionHouse (and Bazaar).     *)
(*                                                                         *)
(* A datetime is the number of microseconds since the epoch, a timedelta   *)
(* a number of microseconds (the resolution of Python's datetime); the     *)
(* feed's lastUpdated is a number of milliseconds.                         *)
(*                                                                         *)
(* The specifications share the variables:                                 *)
(*   SpecLimiter  - coroutines calling through the use_key wrapper         *)
(*   SpecAcquire  - one get_active_auctions call against a changing feed   *)
(*   Spec         - handler registration and the active-auctions loop of   *)
(*                  AuctionHouse, with its buffers                         *)
(*   SpecFeeds    - the active, ended and bazaar loops running together    *)
(*   SpecNbt      - the construction of a GenericItem: deserialize and the *)
(*                  extractors of nbtparse                                 *)
(*   SpecItems    - the same construction, from item documents with books, *)
(*                  runes and attributes                                   *)
(*   SpecDatabase - the calls behind the db_write wrapper                  *)
(*   SpecObserver - check_new_auctions and cache_auctions of               *)
(*                  AuctionHouseObserver against a changing feed           *)
(*   SpecWrapper  - check_active_auctions of ahwrapper against a changing  *)
(*                  feed                                                   *)
(***************************************************************************)
EXTENDS Integers, Sequences, FiniteSets, TLC

(***************************************************************************)
(* Program constants                                                       *)
(***************************************************************************)
\* timedelta(minutes=1), in microseconds
Minute == 60000000

\* self.limit = body['record']['limit'] - 20
KeyMargin == 20

\* CacheMinDelay and CacheMaxDelay of config/spiggy.ini, in seconds
CACHE_MIN_DELAY == 10
CACHE_MAX_DELAY == 30

\* await asyncio.sleep(30)
RetrySeconds == 30

\* _check_active_auctions_batch_size = 10
check_active_auctions_batch_size == 10

(***************************************************************************)
(* Bounds of the model                                                     *)
(***************************************************************************)
\* the rate limits explored are 1..MaxLimit
MaxLimit == 2

\* coroutines calling rate-limited methods concurrently
NumCallers == 2

\* calls through the wrapper in one behaviour
MaxCalls == 4

\* the clock of SpecLimiter runs over MaxMinutes minutes
MaxMinutes == 1

\* the feed has 1..MaxPages pages
MaxPages == 2

\* the clock of SpecAcquire runs over MaxTicks steps
MaxTicks == 16

\* attempts of one get_active_auctions call
MaxAttempts == 3

\* listings in one snapshot
MaxListings == 2

\* get_active_auctions calls made by the caching loop in one behaviour
MaxSnapshots == 2

\* the bytes of an enumerated stream behind its header
MaxBody == 4

\* the members of the outer compound of an encoded tree
MaxMembers == 2

\* the enchantments of an item document
MaxEnchants == 2

\* the calls made through db_write in one behaviour
MaxDbCalls == 3

\* the check_new_auctions (check_active_auctions) calls of one behaviour
MaxChecks == 3

\* the values explored for ProcessingBatchSize and for CacheCooldown
\* (minutes)
ProcessingBatchSizes == {0, 1, 2}
CacheCooldowns == {0, 1}

\* the values explored for AA_CLEAR_THRESHOLD and AA_BATCH_SIZE
Thresholds == {1, 2}
BatchSizes == {1, 2}

\* the functions registered as handlers of active snapshots
ActiveHandlers == {"update_active_buffers", "refresh_dashboards"}

\* handlers registered on one hook
MaxHandlers == Cardinality(ActiveHandlers)

VARIABLES
    clock,        \* datetime.now()
    limit,        \* SkyblockAPI.limit
    key_calls,    \* SkyblockAPI.key_calls (a deque, front first)
    appended,     \* history: every scheduled_time appended to key_calls
    w_pc,         \* per caller: position inside use_key.wrapper
    w_now,        \* per caller: the local `now`
    w_sched,      \* per caller: the local `scheduled_time`
    running,      \* the coroutine holding the event loop (0: none)
    feed_ms,      \* the feed: lastUpdated of the listings endpoint (ms)
    feed_pages,   \* the feed: totalPages of the listings endpoint
    g_pc,         \* get_active_auctions: position
    g_args,       \* get_active_auctions: *args of the running invocation
    g_page_count, \* get_active_auctions: page_count
    g_expected,   \* get_active_auctions: expected_time
    g_wake,       \* get_active_auctions: end of the current sleep
    g_pages,      \* get_active_auctions: page_numbers
    g_results,    \* get_active_auctions: results of the gathered tasks
    g_ret,        \* get_active_auctions: the returned pair
    g_exc,        \* get_active_auctions: the exception that left it
    g_attempts,   \* the nested get_active_auctions invocations (attempts)
    g_issued,     \* history: the time the page requests were issued
    g_log,        \* history: when the last attempt was aborted, and which
                  \* attempt probed last
    config,       \* the values read from config/spiggy.ini
    phase,        \* "setup" until start_caching is awaited
    crashed,      \* the exception that left start_caching, or None
    aa_handlers,  \* AuctionHouse.aa_handlers
    active_auctions, \* AuctionHouse.active_auctions
    aa_last_update,  \* AuctionHouse.aa_last_update
    aa_cache_count,  \* AuctionHouse.aa_cache_count
    lbin_buffer,  \* AuctionHouse.lbin_buffer
    active_occurrences, \* AuctionHouse.active_occurrences
    lbin_history, \* the rows of the table lbin_history
    aa_pc,        \* cache_active_auctions: position
    aa_T,         \* cache_active_auctions: last_update
    aa_res,       \* cache_active_auctions: res
    aa_parsed,    \* cache_active_auctions: the local active_auctions
    aa_batch_start, \* cache_active_auctions: batch_start
    aa_next,      \* cache_active_auctions: index of the next handler
    aa_awaiting,  \* cache_active_auctions: index of the awaited handler
    aa_called,    \* history: handlers whose body ran for this snapshot
    aa_rounds,    \* history: get_active_auctions calls made by the loop
    buffer_calls, \* history: runs of update_active_buffers
    accepted,     \* history: snapshots accepted by cache_active_auctions
    observed,     \* history: samples appended since the last reset
    flushes,      \* history: calls of save_lbin_history
    last_flush,   \* history: the last save_lbin_history call
    ea_handlers,  \* AuctionHouse.ea_handlers
    ended_auctions, \* AuctionHouse.ended_auctions
    ea_last_update, \* AuctionHouse.ea_last_update
    ea_cache_count, \* AuctionHouse.ea_cache_count
    sold_buffer,  \* AuctionHouse.sold_buffer
    ea_pc,        \* cache_ended_auctions: position
    ea_T,         \* cache_ended_auctions: last_update
    ea_next,      \* cache_ended_auctions: index of the next handler
    ea_awaiting,  \* cache_ended_auctions: index of the awaited handler
    ea_called,    \* history: handlers whose body ran for this snapshot
    ea_rounds,    \* history: get_ended_auctions calls made by the loop
    avg_sale_history, \* the rows of the table avg_sale_history
    sold_flushed, \* history: resets of sold_buffer, and what the last one held
    bz_handlers,  \* Bazaar._handlers
    products,     \* Bazaar.products
    bz_last_update, \* Bazaar.last_update
    bz_pc,        \* cache_products: position
    bz_T,         \* cache_products: last_update
    bz_next,      \* cache_products: index of the next handler
    bz_awaiting,  \* cache_products: index of the awaited handler
    bz_called,    \* history: handlers whose body ran for this snapshot
    bz_rounds,    \* history: get_bazaar_products calls made by the loop
    nbt_pc,       \* GenericItem.__init__: position
    nbt_b64,      \* GenericItem.__init__: the argument b64
    nbt_source,   \* history: the tag tree nbt_b64 was encoded from, if any
    nbt,          \* GenericItem.__init__: nbt, as deserialize handed it back
    nbt_item,     \* the attributes of the GenericItem set so far
    dashboard,    \* the message ids of the rows of the table dashboard
    db_last,      \* history: the last call through db_write, and its number
    observer,     \* the AuctionHouseObserver, its call in progress, history
    wrapper       \* ahwrapper: its globals, its call in progress, history

limiterVars == <<limit, key_calls, appended, w_pc, w_now, w_sched, running>>

acquireVars == <<feed_ms, feed_pages, g_pc, g_args, g_page_count, g_expected,
                 g_wake, g_pages, g_results, g_ret, g_exc, g_attempts,
                 g_issued, g_log>>

activeState == <<active_auctions, aa_last_update, aa_cache_count, lbin_buffer,
                 active_occurrences, lbin_history>>

activeLocals == <<aa_pc, aa_T, aa_res, aa_parsed, aa_batch_start, aa_next,
                  aa_awaiting, aa_called>>

activeHistory == <<aa_rounds, buffer_calls, accepted, observed, flushes,
                   last_flush>>

activeVars == <<aa_handlers, activeState, activeLocals, activeHistory>>

endedVars == <<ea_handlers, ended_auctions, ea_last_update, ea_cache_count,
               sold_buffer, ea_pc, ea_T, ea_next, ea_awaiting, ea_called,
               ea_rounds, avg_sale_history, sold_flushed>>

bazaarVars == <<bz_handlers, products, bz_last_update, bz_pc, bz_T, bz_next,
                bz_awaiting, bz_called, bz_rounds>>

houseVars == <<config, phase, crashed, activeVars, endedVars, bazaarVars>>

nbtVars == <<nbt_pc, nbt_b64, nbt_source, nbt, nbt_item>>

dbVars == <<dashboard, db_last>>

pollVars == <<observer, wrapper>>

\* the call of get_active_auctions, without the feed it reads
callVars == <<g_pc, g_args, g_page_count, g_expected, g_wake, g_pages,
              g_results, g_ret, g_exc, g_attempts, g_issued, g_log>>

vars == <<clock, limiterVars, acquireVars, houseVars, nbtVars, dbVars,
          pollVars>>

\* what the actions of one part leave alone
notLimiter == <<acquireVars, houseVars, nbtVars,
                dbVars, pollVars>>
notAcquire == <<limiterVars, houseVars, nbtVars,
                dbVars, pollVars>>
notActive == <<limiterVars, acquireVars, endedVars, bazaarVars, nbtVars,
               dbVars, pollVars>>
notEnded == <<limiterVars, acquireVars, activeVars, bazaarVars, nbtVars,
              dbVars, pollVars>>
notBazaar == <<limiterVars, acquireVars, activeVars, endedVars, nbtVars,
               dbVars, pollVars>>
notNbt == <<limiterVars, acquireVars, houseVars, dbVars, pollVars>>
notDb == <<limiterVars, acquireVars, houseVars, nbtVars, pollVars>>
notPoll == <<limiterVars, callVars, houseVars, nbtVars, dbVars>>

\* a coroutine name for "nobody", and the value of an unset local
None == "None"

\* self.aa_last_update = None
Never == 0

\* Python objects passed as arguments carry their class
Dict(items) == [class |-> "dict", items |-> items]
NoneType == [class |-> "NoneType"]

(***************************************************************************)
(* Helpers                                                                 *)
(***************************************************************************)
(***************************************************************************)
(* The state of each part after construction                               *)
(***************************************************************************)
Callers == 1..NumCallers

\* SkyblockAPI.__init__ (limit is chosen by the specification's Init)
LimiterIdle ==
    /\ key_calls = << >>
    /\ appended = << >>
    /\ w_pc = [c \in Callers |-> "idle"]
    /\ w_now = [c \in Callers |-> 0]
    /\ w_sched = [c \in Callers |-> 0]
    /\ running = 0

\* no get_active_auctions call has been made
AcquireIdle ==
    /\ feed_ms = 0
    /\ g_pc = "idle"
    /\ g_args = << >>
    /\ g_page_count = 0
    /\ g_expected = 0
    /\ g_wake = 0
    /\ g_pages = << >>
    /\ g_results = << >>
    /\ g_ret = [T |-> 0, listings |-> << >>]
    /\ g_exc = None
    /\ g_attempts = 0
    /\ g_issued = 0
    /\ g_log = [aborted |-> 0, probed |-> 0]

\* the configurations explored
Configs == [WRITE_TO_DATABASE : BOOLEAN,
            AA_CLEAR_THRESHOLD : Thresholds,
            EA_CLEAR_THRESHOLD : Thresholds,
            AA_BATCH_SIZE : BatchSizes]

\* AuctionHouse.__init__, but for the handler lists
HouseFresh ==
    /\ crashed = None
    /\ active_auctions = << >>
    /\ aa_last_update = Never
    /\ aa_cache_count = 0
    /\ lbin_buffer = << >>
    /\ active_occurrences = << >>
    /\ lbin_history = {}
    /\ aa_pc = "loop"
    /\ aa_T = Never
    /\ aa_res = << >>
    /\ aa_parsed = << >>
    /\ aa_batch_start = 0
    /\ aa_next = 1
    /\ aa_awaiting = 0
    /\ aa_called = << >>
    /\ aa_rounds = 0
    /\ buffer_calls = 0
    /\ accepted = 0
    /\ observed = 0
    /\ flushes = 0
    /\ last_flush = [arg |-> NoneType, observed |-> 0]
    /\ ended_auctions = << >>
    /\ ea_last_update = Never
    /\ ea_cache_count = 0
    /\ sold_buffer = << >>
    /\ ea_pc = "loop"
    /\ ea_T = Never
    /\ ea_next = 1
    /\ ea_awaiting = 0
    /\ ea_called = << >>
    /\ ea_rounds = 0
    /\ avg_sale_history = {}
    /\ sold_flushed = [resets |-> 0, items |-> << >>]

\* AuctionHouse.__init__, before any handler is registered
HouseIdle ==
    /\ phase = "setup"
    /\ aa_handlers = << >>
    /\ ea_handlers = << >>
    /\ HouseFresh

\* Bazaar.__init__, but for the handler list
BazaarFresh ==
    /\ products = << >>
    /\ bz_last_update = Never
    /\ bz_pc = "loop"
    /\ bz_T = Never
    /\ bz_next = 1
    /\ bz_awaiting = 0
    /\ bz_called = << >>
    /\ bz_rounds = 0

\* Bazaar.__init__
BazaarIdle ==
    /\ bz_handlers = << >>
    /\ BazaarFresh

\* database.py as imported: no dashboard saved, no call made
DbIdle ==
    /\ dashboard = {}
    /\ db_last = [call |-> 0, func |-> None, exc |-> None, executed |-> 0,
                  commits |-> 0]

\* self.last_update = None, _active_auctions_last_update = None
Unset == -1

\* AuctionHouseObserver.__init__ under a configuration; the fields behind
\* persisting_auctions are the call in progress and the history
ObserverFresh(batch_size, cooldown) ==
    [batch_size |-> batch_size, cooldown |-> cooldown, last_update |-> Unset,
     active_auctions |-> << >>, ended_auctions |-> << >>,
     persisting_auctions |-> << >>,
     pc |-> "idle", exc |-> None, page_count |-> 0, pending |-> {},
     pages |-> << >>, responses |-> << >>, batch_start |-> 0,
     parsed |-> << >>,
     checks |-> 0, requested |-> {}, yields |-> 0, batches |-> << >>,
     caches |-> 0, cached |-> [T |-> Unset, pages |-> 0],
     aborted |-> Unset, skipped |-> Unset]

\* the globals of ahwrapper when the module has been loaded; the fields
\* behind last_update are the call in progress and the history
WrapperFresh ==
    [last_update |-> Unset, processes |-> 0,
     pc |-> "idle", exc |-> None, page |-> 0, pending |-> {},
     results |-> << >>, auctions |-> << >>,
     checks |-> 0, voided |-> {}, deliveries |-> 0, delivered |-> << >>]

\* neither the observer nor ahwrapper is in use
PollIdle ==
    /\ observer = ObserverFresh(1, 1)
    /\ wrapper = WrapperFresh

\* no item is being constructed
NbtIdle ==
    /\ nbt_pc = "idle"
    /\ nbt_b64 = NoneType
    /\ nbt_source = NoneType
    /\ nbt = NoneType
    /\ nbt_item = NoneType

(***************************************************************************)
(* use_key: the leaky-bucket wrapper                                       *)
(***************************************************************************)
\* the clock values of SpecLimiter: around every minute boundary, and halfway
ClockGrid ==
    { k * Minute + o : k \in 0..MaxMinutes, o \in {0, 1, Minute \div 2} }

\* while len(self.key_calls) and now - self.key_calls[0] > minute: popleft()
RECURSIVE PopExpired(_, _)
PopExpired(q, now) ==
    IF Len(q) > 0 /\ now - Head(q) > Minute
    THEN PopExpired(Tail(q), now)
    ELSE q

ScheduledTimeNoMinute(q, now, lim) ==
    IF Len(q) < lim THEN now ELSE q[Len(q) - lim + 1]

ScheduledTimeOffByOne(q, now, lim) ==
    IF Len(q) <= lim THEN now ELSE q[Len(q) - lim + 1] + Minute

\* scheduled_time = now if len(self.key_calls) < self.limit
\*                  else self.key_calls[-self.limit] + minute
ScheduledTime(q, now, lim) ==
    IF Len(q) < lim THEN now ELSE q[Len(q) - lim + 1] + Minute

SuspendsEverywhere(pos) == TRUE

\* The wrapper gives up the event loop only at its `await asyncio.sleep`,
\* which follows the append: a coroutine that reached position pos is
\* suspended there iff pos is "sleeping".
SuspendsAfter(pos) == pos = "sleeping"

\* the coroutine that holds the event loop after c has reached position pos
Holder(c, pos) == IF SuspendsAfter(pos) THEN 0 ELSE c

MayRun(c) == running \in {0, c}

\* now = datetime.now(); minute = timedelta(minutes=1)
Enter(c) ==
    /\ w_pc[c] = "idle"
    /\ MayRun(c)
    /\ Len(appended) < MaxCalls
    /\ w_now' = [w_now EXCEPT ![c] = clock]
    /\ w_pc' = [w_pc EXCEPT ![c] = "entered"]
    /\ running' = Holder(c, "entered")
    /\ UNCHANGED <<notLimiter, clock, limit, key_calls, appended, w_sched>>

\* the pruning loop
Prune(c) ==
    /\ w_pc[c] = "entered"
    /\ MayRun(c)
    /\ key_calls' = PopExpired(key_calls, w_now[c])
    /\ w_pc' = [w_pc EXCEPT ![c] = "pruned"]
    /\ running' = Holder(c, "pruned")
    /\ UNCHANGED <<notLimiter, clock, limit, appended, w_now, w_sched>>

\* compute scheduled_time, append it, reach the await
Schedule(c) ==
    /\ w_pc[c] = "pruned"
    /\ MayRun(c)
    /\ LET s == ScheduledTime(key_calls, w_now[c], limit) IN
         /\ key_calls' = Append(key_calls, s)
         /\ appended' = Append(appended, s)
         /\ w_sched' = [w_sched EXCEPT ![c] = s]
    /\ w_pc' = [w_pc EXCEPT ![c] = "sleeping"]
    /\ running' = Holder(c, "sleeping")
    /\ UNCHANGED <<notLimiter, clock, limit, w_now>>

\* the sleep is over: return await req(self, ...)
Request(c) ==
    /\ w_pc[c] = "sleeping"
    /\ running = 0
    /\ clock >= w_sched[c]
    /\ w_pc' = [w_pc EXCEPT ![c] = "idle"]
    /\ w_now' = [w_now EXCEPT ![c] = 0]
    /\ w_sched' = [w_sched EXCEPT ![c] = 0]
    /\ UNCHANGED <<notLimiter, clock, limit, key_calls, appended, running>>

\* time passes (the clock never goes back); the clock is read only on
\* entering the wrapper, so time passing inside a synchronous stretch is
\* not distinguished from time passing right after it
Tick ==
    /\ running = 0
    /\ \E t \in ClockGrid : t > clock /\ clock' = t
    /\ UNCHANGED <<notLimiter, limit, key_calls, appended, w_pc, w_now, w_sched, running>>

InitLimiter ==
    /\ clock = 0
    /\ \E record_limit \in (KeyMargin + 1)..(KeyMargin + MaxLimit) :
           limit = record_limit - KeyMargin
    /\ LimiterIdle
    /\ feed_pages = 1
    /\ AcquireIdle
    /\ config = CHOOSE c \in Configs : TRUE
    /\ HouseIdle
    /\ BazaarIdle
    /\ NbtIdle
    /\ DbIdle
    /\ PollIdle

NextLimiter ==
    \/ \E c \in Callers : Enter(c)
    \/ \E c \in Callers : Prune(c)
    \/ \E c \in Callers : Schedule(c)
    \/ \E c \in Callers : Request(c)
    \/ Tick

SpecLimiter == InitLimiter /\ [][NextLimiter]_vars

(***************************************************************************)
(* SkyblockAPI.get_active_auctions against the listings endpoint           *)
(***************************************************************************)
\* timedelta(seconds=s)
Seconds(s) == s * 1000000

\* datetime.fromtimestamp(ms / 1000)
FromTimestamp(ms) == ms * 1000

\* the clock of SpecAcquire advances in steps of ten seconds
TickStep == Minute \div 6

\* The listings of page `page` of the feed as updated at `ms`: one listing,
\* which records the update and the page it belongs to.
PageAuctions(ms, page) == << [t |-> ms, page |-> page] >>

\* What the listings endpoint may answer to a request for `page`: the page
\* of the current update, a 404 for a page the feed does not have, another
\* non-success status, or a body without the expected keys.
Responses(page) ==
    IF page < feed_pages
    THEN { [status |-> 200,
            body |-> [success |-> TRUE,
                      lastUpdated |-> feed_ms,
                      totalPages |-> feed_pages,
                      auctions |-> PageAuctions(feed_ms, page)]],
           [status |-> 200, body |-> [success |-> FALSE]],
           [status |-> 502, body |-> [success |-> FALSE]] }
    ELSE { [status |-> 404, body |-> [success |-> FALSE]],
           [status |-> 502, body |-> [success |-> FALSE]] }

Returned(value) == [exc |-> None, value |-> value]
Raised(exc) == [exc |-> exc, value |-> None]

\* get_params, given the response to the request for page 0
get_params(res) ==
    IF res.status # 200
    THEN Raised("ResponseCodeError")
    ELSE IF {"totalPages", "lastUpdated"} \subseteq DOMAIN res.body
         THEN Returned([page_count |-> res.body.totalPages,
                        expected_time |-> FromTimestamp(res.body.lastUpdated)])
         ELSE Raised("MalformedResponseError")

PageTimeOlder(page_time, expected_time) == page_time < expected_time

\* if page_time != expected_time
PageTimeDiffers(page_time, expected_time) == page_time # expected_time

\* get_page, given the response to the request for the page
get_page(res, expected_time) ==
    IF res.status = 404
    THEN Raised("UnexpectedUpdateError")
    ELSE IF res.status # 200
    THEN Raised("ResponseCodeError")
    ELSE IF "lastUpdated" \notin DOMAIN res.body
    THEN Raised("MalformedResponseError")
    ELSE IF PageTimeDiffers(FromTimestamp(res.body.lastUpdated), expected_time)
    THEN Raised("UnexpectedUpdateError")
    ELSE IF "auctions" \notin DOMAIN res.body
    THEN Raised("MalformedResponseError")
    ELSE Returned(res.body.auctions)

\* page_numbers = list(args) or range(page_count)
PageNumbers(args, page_count) ==
    IF args # << >> THEN args ELSE [i \in 1..page_count |-> i - 1]

\* list(itertools.chain.from_iterable(results))
RECURSIVE Chain(_)
Chain(lists) ==
    IF lists = << >> THEN << >> ELSE Head(lists) \o Chain(Tail(lists))

\* The alignment that follows the first probe of an attempt: where the
\* coroutine goes next and until when it sleeps.
Align(expected_time, time_now) ==
    LET time_lb == expected_time + Seconds(CACHE_MIN_DELAY)
        time_ub == expected_time + Seconds(CACHE_MAX_DELAY)
    IN IF time_now > time_ub
       THEN [pc |-> "wait_late", wake |-> time_lb + Seconds(60)]
       ELSE IF time_now < time_lb
       THEN [pc |-> "wait_early", wake |-> time_lb]
       ELSE [pc |-> "fetch", wake |-> 0]

\* the tasks of the gather, none of them finished
Pending(pages) == [i \in 1..Len(pages) |-> [done |-> FALSE, auctions |-> << >>]]

\* an exception leaves get_active_auctions
Propagate(exc) ==
    /\ g_pc' = "raised"
    /\ g_exc' = exc
    /\ g_results' = << >>
    /\ UNCHANGED <<g_args, g_page_count, g_expected, g_wake, g_pages, g_ret,
                   g_attempts, g_issued, g_log>>

\* page_numbers is fixed and the page requests are issued
StartFetch(page_count) ==
    /\ g_pc' = "fetch"
    /\ g_pages' = PageNumbers(g_args, page_count)
    /\ g_results' = Pending(PageNumbers(g_args, page_count))
    /\ g_issued' = clock

\* cache_active_auctions calls self.api.get_active_auctions()
CallGetActiveAuctions ==
    /\ g_pc = "idle"
    /\ g_pc' = "probe"
    /\ g_args' = << >>
    /\ g_attempts' = 1
    /\ UNCHANGED <<clock, feed_ms, feed_pages, g_page_count, g_expected,
                   g_wake, g_pages, g_results, g_ret, g_exc, g_issued, g_log,
                   notAcquire>>

\* page_count, expected_time = await get_params() and the alignment
Probe ==
    /\ g_pc = "probe"
    /\ \E res \in Responses(0) :
         LET r == get_params(res) IN
           IF r.exc # None
           THEN Propagate(r.exc)
           ELSE LET a == Align(r.value.expected_time, clock) IN
                /\ g_page_count' = r.value.page_count
                /\ g_expected' = r.value.expected_time
                /\ g_wake' = a.wake
                /\ g_log' = [g_log EXCEPT !.probed = g_attempts]
                /\ IF a.pc = "fetch"
                   THEN StartFetch(r.value.page_count)
                   ELSE g_pc' = a.pc
                        /\ UNCHANGED <<g_pages, g_results, g_issued>>
                /\ UNCHANGED <<g_args, g_ret, g_exc, g_attempts>>
    /\ UNCHANGED <<clock, feed_ms, feed_pages, notAcquire>>

\* "Already missed the window": the sleep until cache_time is over, and
\* page_count, expected_time = await get_params() once more
Reprobe ==
    /\ g_pc = "wait_late"
    /\ clock >= g_wake
    /\ \E res \in Responses(0) :
         LET r == get_params(res) IN
           IF r.exc # None
           THEN Propagate(r.exc)
           ELSE /\ g_page_count' = r.value.page_count
                /\ g_expected' = r.value.expected_time
                /\ g_log' = [g_log EXCEPT !.probed = g_attempts]
                /\ StartFetch(r.value.page_count)
                /\ UNCHANGED <<g_args, g_wake, g_ret, g_exc, g_attempts>>
    /\ UNCHANGED <<clock, feed_ms, feed_pages, notAcquire>>

\* "Not yet at the window": the sleep until time_lb is over
WakeEarly ==
    /\ g_pc = "wait_early"
    /\ clock >= g_wake
    /\ StartFetch(g_page_count)
    /\ UNCHANGED <<clock, feed_ms, feed_pages, g_args, g_page_count,
                   g_expected, g_wake, g_ret, g_exc, g_attempts, g_log,
                   notAcquire>>

\* one task of the gather gets its response; the tasks run concurrently,
\* so the responses arrive in any order
FetchPage(i) ==
    /\ g_pc = "fetch"
    /\ i \in 1..Len(g_pages)
    /\ ~g_results[i].done
    /\ \E res \in Responses(g_pages[i]) :
         LET r == get_page(res, g_expected) IN
           IF r.exc = None
           THEN /\ g_results' = [g_results EXCEPT
                                   ![i] = [done |-> TRUE, auctions |-> r.value]]
                /\ UNCHANGED <<g_pc, g_args, g_page_count, g_expected, g_wake,
                               g_pages, g_ret, g_exc, g_attempts, g_issued,
                               g_log>>
           ELSE IF r.exc = "UnexpectedUpdateError"
           THEN \* except UnexpectedUpdateError: await asyncio.sleep(30)
                /\ g_pc' = "backoff"
                /\ g_wake' = clock + Seconds(RetrySeconds)
                /\ g_log' = [g_log EXCEPT !.aborted = clock]
                /\ g_results' = << >>
                /\ UNCHANGED <<g_args, g_page_count, g_expected, g_pages,
                               g_ret, g_exc, g_attempts, g_issued>>
           ELSE Propagate(r.exc)
    /\ UNCHANGED <<clock, feed_ms, feed_pages, notAcquire>>

\* every task is done: return expected_time, results_chained
Return ==
    /\ g_pc = "fetch"
    /\ \A i \in 1..Len(g_pages) : g_results[i].done
    /\ g_pc' = "returned"
    /\ g_ret' = [T |-> g_expected,
                 listings |-> Chain([i \in 1..Len(g_pages) |->
                                        g_results[i].auctions])]
    /\ UNCHANGED <<clock, feed_ms, feed_pages, g_args, g_page_count,
                   g_expected, g_wake, g_pages, g_results, g_exc, g_attempts,
                   g_issued, g_log, notAcquire>>

\* A retry is a call of get_active_auctions from inside itself, awaited:
\* every aborted attempt leaves one more invocation on the stack.  The
\* interpreter allows a finite nesting (sys.getrecursionlimit(), 1000 unless
\* changed); the model scales it down to the attempts it explores.
RecursionLimit == MaxAttempts

RetryAtOnce ==
    /\ g_pc = "backoff"
    /\ g_attempts < RecursionLimit
    /\ g_pc' = "probe"
    /\ g_args' = g_pages
    /\ g_attempts' = g_attempts + 1
    /\ UNCHANGED <<clock, feed_ms, feed_pages, g_page_count, g_expected,
                   g_wake, g_pages, g_results, g_ret, g_exc, g_issued, g_log,
                   notAcquire>>

\* the backoff is over: return await self.get_active_auctions(*page_numbers)
Retry ==
    /\ g_pc = "backoff"
    /\ clock >= g_wake
    /\ g_attempts < RecursionLimit
    /\ g_pc' = "probe"
    /\ g_args' = g_pages
    /\ g_attempts' = g_attempts + 1
    /\ UNCHANGED <<clock, feed_ms, feed_pages, g_page_count, g_expected,
                   g_wake, g_pages, g_results, g_ret, g_exc, g_issued, g_log,
                   notAcquire>>

\* the backoff is over but the invocations nested by the retries have used
\* up the interpreter's stack: the call of line 217 raises RecursionError
RetryOverflow ==
    /\ g_pc = "backoff"
    /\ clock >= g_wake
    /\ g_attempts >= RecursionLimit
    /\ Propagate("RecursionError")
    /\ UNCHANGED <<clock, feed_ms, feed_pages, notAcquire>>

\* cache_active_auctions has the pair its call returned: the timestamp is
\* the last accepted one from here on (what else the loop does with the
\* snapshot is the matter of Spec), and start_aa_caching calls again after
\* its cooldown, a duration read from the configuration
CacheAndCallAgain ==
    /\ g_pc = "returned"
    /\ aa_rounds < MaxSnapshots - 1
    /\ aa_rounds' = aa_rounds + 1
    /\ aa_last_update' = g_ret.T
    /\ g_pc' = "idle"
    /\ g_args' = << >>
    /\ g_attempts' = 0
    /\ g_pages' = << >>
    /\ g_results' = << >>
    /\ g_ret' = [T |-> 0, listings |-> << >>]
    /\ UNCHANGED <<clock, limiterVars, feed_ms, feed_pages, g_page_count,
                   g_expected, g_wake, g_exc, g_issued, g_log, config, phase,
                   crashed, aa_handlers, active_auctions, aa_cache_count,
                   lbin_buffer, active_occurrences, lbin_history,
                   activeLocals, buffer_calls, accepted, observed, flushes,
                   last_flush, endedVars, bazaarVars, nbtVars, dbVars,
                   pollVars>>

InFlight == g_pc \notin {"returned", "raised"}

\* the feed commits an update, at least a minute after the last one
FeedUpdate ==
    /\ InFlight
    /\ clock - FromTimestamp(feed_ms) >= Minute
    /\ feed_ms' = clock \div 1000
    /\ feed_pages' \in 1..MaxPages
    /\ UNCHANGED <<clock, g_pc, g_args, g_page_count, g_expected, g_wake,
                   g_pages, g_results, g_ret, g_exc, g_attempts, g_issued,
                   g_log, notAcquire>>

\* an asyncio.sleep of the call has reached its end
TimerDue == g_pc \in {"wait_late", "wait_early", "backoff"} /\ clock >= g_wake

\* time passes; the event loop has nothing else to run, so a sleep that has
\* reached its end is resumed before more time passes
AcquireTick ==
    /\ InFlight
    /\ ~TimerDue
    /\ clock + TickStep <= MaxTicks * TickStep
    /\ clock' = clock + TickStep
    /\ UNCHANGED <<acquireVars, notAcquire>>

InitAcquire ==
    /\ clock = 0
    /\ limit = 1
    /\ LimiterIdle
    /\ feed_pages \in 1..MaxPages
    /\ AcquireIdle
    /\ config = CHOOSE c \in Configs : TRUE
    /\ HouseIdle
    /\ BazaarIdle
    /\ NbtIdle
    /\ DbIdle
    /\ PollIdle

NextAcquire ==
    \/ CallGetActiveAuctions
    \/ Probe
    \/ Reprobe
    \/ WakeEarly
    \/ \E i \in 1..MaxPages : FetchPage(i)
    \/ Return
    \/ Retry
    \/ RetryOverflow
    \/ FeedUpdate
    \/ AcquireTick
    \/ CacheAndCallAgain

SpecAcquire == InitAcquire /\ [][NextAcquire]_vars

(***************************************************************************)
(* Listings and items                                                      *)
(***************************************************************************)
\* The item_bytes of the feed are represented by codes; Items gives what
\* decoding and extraction make of each, "BAD" being bytes that do not
\* decode.
Items ==
    [A   |-> [item_id |-> "ASPECT", rarity |-> "RARE", stack_size |-> 1,
              ascii |-> TRUE],
     A2  |-> [item_id |-> "ASPECT", rarity |-> "RARE", stack_size |-> 2,
              ascii |-> TRUE],
     UNI |-> [item_id |-> "GLYPH", rarity |-> "EPIC", stack_size |-> 1,
              ascii |-> FALSE]]

\* make_item: GenericItem(b64), which decodes and extracts, or raises
make_item(b64) ==
    IF b64 \in DOMAIN Items THEN Returned(Items[b64]) ELSE Raised("ItemError")

\* ActiveAuction.__init__; `start` is kept for start_time
ActiveAuction(d) ==
    LET item == make_item(d.item_bytes) IN
      IF item.exc # None
      THEN Raised(item.exc)
      ELSE Returned([auction_id |-> d.uuid,
                     is_bin |-> "bin" \in DOMAIN d,
                     price |-> d.highest_bid_amount,
                     item |-> item.value,
                     starting_price |-> d.starting_bid,
                     start |-> d.start])

\* auction.start_time
start_time(auction) == FromTimestamp(auction.start)

\* auction.unit_price
unit_price(auction) == auction.price \div auction.item.stack_size

\* auction.item.has_ascii_base_name()
has_ascii_base_name(item) == item.ascii

\* the records the listings endpoint may hold at the update of `ms`
ActiveRecords(ms) ==
    { [uuid |-> "u1", bin |-> TRUE, start |-> ms - 60000,
       highest_bid_amount |-> 20, starting_bid |-> 20, item_bytes |-> "A"],
      [uuid |-> "u2", bin |-> TRUE, start |-> ms - 60000,
       highest_bid_amount |-> 30, starting_bid |-> 30, item_bytes |-> "A2"],
      [uuid |-> "u3", bin |-> TRUE, start |-> ms - 59999,
       highest_bid_amount |-> 2, starting_bid |-> 2, item_bytes |-> "A"],
      \* an auction nobody has bid on yet
      [uuid |-> "u4", start |-> ms - 60000,
       highest_bid_amount |-> 0, starting_bid |-> 1, item_bytes |-> "UNI"],
      [uuid |-> "u5", bin |-> TRUE, start |-> ms - 60000,
       highest_bid_amount |-> 8, starting_bid |-> 8, item_bytes |-> "BAD"] }

\* sequences of at most n different elements of S
SeqsUpTo(S, n) ==
    { s \in UNION { [1..k -> S] : k \in 0..n } :
        \A i, j \in 1..Len(s) : s[i] = s[j] => i = j }

\* the snapshots get_active_auctions may return for the update of `ms`:
\* every listing of the feed has its own uuid
ActiveSnapshots(ms) == SeqsUpTo(ActiveRecords(ms), MaxListings)

(***************************************************************************)
(* AuctionHouse: the active-auctions loop                                  *)
(***************************************************************************)
\* the handlers declared `async def`
IsAsyncDef(func) == func = "refresh_dashboards"

IsCoroutineFunctionNever(func) == FALSE

\* inspect.iscoroutinefunction(func)
IsCoroutineFunction(func) == IsAsyncDef(func)

AlreadyCachedNever(last_update, cached) == FALSE

\* if last_update == self.aa_last_update
AlreadyCached(last_update, cached) == last_update = cached

Min2KeepsFirst(a, b) == a

\* min(current_lbin[key], auction.unit_price)
Min2(a, b) == IF a <= b THEN a ELSE b

RECURSIVE SeqSum(_)
SeqSum(s) == IF s = << >> THEN 0 ELSE Head(s) + SeqSum(Tail(s))

KeyOf(auction) == <<auction.item.item_id, auction.item.rarity>>

\* the loop "Get current lowest BINs" over the first n auctions
RECURSIVE CurrentLbin(_, _, _)
CurrentLbin(last_update, auctions, n) ==
    IF n = 0 THEN << >>
    ELSE LET before == CurrentLbin(last_update, auctions, n - 1)
             auction == auctions[n]
             key == KeyOf(auction)
             duration == last_update - start_time(auction)
         IN IF auction.is_bin /\ duration >= Minute
            THEN IF key \notin DOMAIN before
                 THEN [k \in DOMAIN before \cup {key} |->
                          IF k = key THEN unit_price(auction) ELSE before[k]]
                 ELSE [before EXCEPT ![key] = Min2(before[key], unit_price(auction))]
            ELSE before

\* the loop "Insert into the buffer"
InsertLbin(buffer, current_lbin) ==
    [k \in DOMAIN buffer \cup DOMAIN current_lbin |->
        IF k \in DOMAIN current_lbin
        THEN (IF k \in DOMAIN buffer THEN buffer[k] ELSE << >>)
                 \o << current_lbin[k] >>
        ELSE buffer[k]]

\* statistics.mean(prices), as a fraction in lowest terms
RECURSIVE Gcd(_, _)
Gcd(a, b) == IF b = 0 THEN a ELSE Gcd(b, a % b)

Mean(prices) ==
    LET s == SeqSum(prices)
        n == Len(prices)
        g == Gcd(s, n)
    IN <<s \div g, n \div g>>

\* database.save_lbin_history(ah), behind db_write: with writing disabled
\* nothing happens; otherwise the body reads ah.lbin_buffer, which raises
\* AttributeError unless ah is an AuctionHouse, and inserts one row
\* (now, item_id, rarity, mean price) for every key.
save_lbin_history(ah, write, now, table) ==
    IF ~write
    THEN Returned(table)
    ELSE IF ah.class # "AuctionHouse"
    THEN Raised("AttributeError")
    ELSE Returned(table \cup
             { <<now, k[1], k[2], Mean(ah.lbin_buffer[k])>> :
                 k \in DOMAIN ah.lbin_buffer })

\* registration: ah.on_active_auctions(handler)
OnActiveAuctions(handler) ==
    /\ phase = "setup"
    /\ Len(aa_handlers) < MaxHandlers
    /\ aa_handlers' = Append(aa_handlers, handler)
    /\ UNCHANGED <<clock, config, phase, crashed, activeState, activeLocals,
                   activeHistory, notActive>>

\* await ah.start_caching()
StartCaching ==
    /\ phase = "setup"
    /\ phase' = "running"
    /\ UNCHANGED <<clock, config, crashed, aa_handlers, activeState,
                   activeLocals, activeHistory, notActive>>

Alive == phase = "running" /\ crashed = None

\* calls made so far to the feeds by the caching loops
Rounds == aa_rounds + ea_rounds + bz_rounds

\* an exception leaves cache_active_auctions, start_aa_caching and the
\* gather of start_caching
Crash(exc) == crashed' = exc

\* start_aa_caching: the next cache_active_auctions begins, it awaits
\* self.api.get_active_auctions()
AaBegin ==
    /\ Alive
    /\ aa_pc \in {"loop", "cooldown"}
    /\ Rounds < MaxSnapshots
    /\ aa_pc' = "acquiring"
    /\ aa_rounds' = aa_rounds + 1
    /\ UNCHANGED <<clock, config, phase, crashed, aa_handlers, activeState,
                   aa_T, aa_res, aa_parsed, aa_batch_start, aa_next,
                   aa_awaiting, aa_called, buffer_calls, accepted, observed,
                   flushes, last_flush, notActive>>

\* get_active_auctions raised
AaAcquireFailed ==
    /\ Alive
    /\ aa_pc = "acquiring"
    /\ \E exc \in {"ResponseCodeError", "MalformedResponseError"} : Crash(exc)
    /\ aa_pc' = "raised"
    /\ UNCHANGED <<clock, config, phase, aa_handlers, activeState, aa_T,
                   aa_res, aa_parsed, aa_batch_start, aa_next, aa_awaiting,
                   aa_called, activeHistory, notActive>>

\* the feed's update after the one last cached
NextUpdate(cached) == cached + Minute

\* get_active_auctions returned (last_update, res): the update last cached
\* or the one after it
AaAcquired ==
    /\ Alive
    /\ aa_pc = "acquiring"
    /\ \E last_update \in {aa_last_update, NextUpdate(aa_last_update)} \ {Never} :
       \E res \in ActiveSnapshots(last_update \div 1000) :
         /\ aa_T' = last_update
         /\ IF AlreadyCached(last_update, aa_last_update)
            THEN /\ aa_pc' = "cooldown"
                 /\ UNCHANGED <<aa_res, aa_parsed, aa_batch_start>>
            ELSE /\ aa_pc' = "decoding"
                 /\ aa_res' = res
                 /\ aa_parsed' = << >>
                 /\ aa_batch_start' = 0
    /\ UNCHANGED <<clock, config, phase, crashed, aa_handlers, activeState,
                   aa_next, aa_awaiting, aa_called, activeHistory, notActive>>

\* the first element of a comprehension whose construction raises
FirstRaised(ext) ==
    CHOOSE i \in 1..Len(ext) :
        /\ ext[i].exc # None
        /\ \A j \in 1..(i - 1) : ext[j].exc = None

\* res[batch_start:batch_end]
Slice(s, from, to) ==
    SubSeq(s, from + 1, IF to <= Len(s) THEN to ELSE Len(s))

\* one batch: ext = [ActiveAuction(d) for d in res[batch_start:batch_end]],
\* active_auctions.extend(ext), await asyncio.sleep(0)
AaBatch ==
    /\ Alive
    /\ aa_pc = "decoding"
    /\ aa_batch_start < Len(aa_res)
    /\ LET batch_end == aa_batch_start + config.AA_BATCH_SIZE
           batch == Slice(aa_res, aa_batch_start, batch_end)
           ext == [i \in 1..Len(batch) |-> ActiveAuction(batch[i])]
       IN IF \E i \in 1..Len(ext) : ext[i].exc # None
          THEN /\ Crash(ext[FirstRaised(ext)].exc)
               /\ aa_pc' = "raised"
               /\ UNCHANGED <<aa_parsed, aa_batch_start>>
          ELSE /\ aa_parsed' = aa_parsed \o [i \in 1..Len(ext) |-> ext[i].value]
               /\ aa_batch_start' = batch_end
               /\ UNCHANGED <<crashed, aa_pc>>
    /\ UNCHANGED <<clock, config, phase, aa_handlers, activeState, aa_T,
                   aa_res, aa_next, aa_awaiting, aa_called, activeHistory,
                   notActive>>

AaAcceptKeepsTimestamp ==
    /\ Alive
    /\ aa_pc = "decoding"
    /\ aa_batch_start >= Len(aa_res)
    /\ active_auctions' =
           SelectSeq(aa_parsed, LAMBDA auction : has_ascii_base_name(auction.item))
    /\ aa_cache_count' = aa_cache_count + 1
    /\ accepted' = accepted + 1
    /\ aa_pc' = "notifying"
    /\ aa_next' = 1
    /\ aa_called' = << >>
    /\ aa_res' = << >>
    /\ aa_parsed' = << >>
    /\ aa_batch_start' = 0
    /\ UNCHANGED <<clock, config, phase, crashed, aa_handlers, lbin_buffer,
                   active_occurrences, lbin_history, aa_T, aa_awaiting,
                   aa_rounds, buffer_calls, observed, flushes, last_flush,
                   aa_last_update, notActive>>

\* the batches are done: "Parse and clean up", "Update instance variables"
AaAccept ==
    /\ Alive
    /\ aa_pc = "decoding"
    /\ aa_batch_start >= Len(aa_res)
    /\ active_auctions' =
           SelectSeq(aa_parsed, LAMBDA auction : has_ascii_base_name(auction.item))
    /\ aa_last_update' = aa_T
    /\ aa_cache_count' = aa_cache_count + 1
    /\ accepted' = accepted + 1
    /\ aa_pc' = "notifying"
    /\ aa_next' = 1
    /\ aa_called' = << >>
    /\ aa_res' = << >>
    /\ aa_parsed' = << >>
    /\ aa_batch_start' = 0
    /\ UNCHANGED <<clock, config, phase, crashed, aa_handlers, lbin_buffer,
                   active_occurrences, lbin_history, aa_T, aa_awaiting,
                   aa_rounds, buffer_calls, observed, flushes, last_flush,
                   notActive>>

\* the statements `self.active_occurrences[key] += 1` over the snapshot
RECURSIVE CountOccurrences(_, _, _)
CountOccurrences(occurrences, auctions, n) ==
    IF n = 0 THEN occurrences
    ELSE LET before == CountOccurrences(occurrences, auctions, n - 1)
             key == KeyOf(auctions[n])
         IN [k \in DOMAIN before \cup {key} |->
               (IF k \in DOMAIN before THEN before[k] ELSE 0)
               + (IF k = key THEN 1 ELSE 0)]

\* update_active_buffers(last_update, active_auctions)
UpdateActiveBuffers ==
    LET current_lbin == CurrentLbin(aa_last_update, active_auctions,
                                    Len(active_auctions))
        occurrences == CountOccurrences(active_occurrences, active_auctions,
                                        Len(active_auctions))
        buffer == InsertLbin(lbin_buffer, current_lbin)
        samples == observed + Cardinality(DOMAIN current_lbin)
    IN /\ buffer_calls' = buffer_calls + 1
       /\ IF aa_cache_count = config.AA_CLEAR_THRESHOLD
          THEN LET saved == save_lbin_history(Dict(buffer),
                                              config.WRITE_TO_DATABASE,
                                              clock, lbin_history)
               IN /\ flushes' = flushes + 1
                  /\ last_flush' = [arg |-> Dict(buffer), observed |-> samples]
                  /\ IF saved.exc # None
                     THEN /\ Crash(saved.exc)
                          /\ aa_pc' = "raised"
                          /\ lbin_buffer' = buffer
                          /\ active_occurrences' = occurrences
                          /\ observed' = samples
                          /\ UNCHANGED <<lbin_history, aa_cache_count,
                                         aa_next, aa_called>>
                     ELSE /\ lbin_history' = saved.value
                          /\ aa_cache_count' = 0
                          /\ active_occurrences' = << >>
                          /\ lbin_buffer' = << >>
                          /\ observed' = 0
                          /\ aa_next' = aa_next + 1
                          /\ aa_called' = Append(aa_called, aa_handlers[aa_next])
                          /\ UNCHANGED <<crashed, aa_pc>>
          ELSE /\ lbin_buffer' = buffer
               /\ active_occurrences' = occurrences
               /\ observed' = samples
               /\ aa_next' = aa_next + 1
               /\ aa_called' = Append(aa_called, aa_handlers[aa_next])
               /\ UNCHANGED <<lbin_history, aa_cache_count, flushes,
                              last_flush, crashed, aa_pc>>

\* "Notify the handlers": the next handler is called, or awaited
AaNotify ==
    /\ Alive
    /\ aa_pc = "notifying"
    /\ aa_awaiting = 0
    /\ aa_next <= Len(aa_handlers)
    /\ LET func == aa_handlers[aa_next] IN
         IF IsCoroutineFunction(func)
         THEN \* await func(...)
              /\ aa_awaiting' = aa_next
              /\ UNCHANGED <<lbin_buffer, active_occurrences, lbin_history,
                             aa_cache_count, aa_next, aa_called, buffer_calls,
                             observed, flushes, last_flush, crashed, aa_pc>>
         ELSE \* func(...)
              /\ UNCHANGED aa_awaiting
              /\ IF func = "update_active_buffers"
                 THEN UpdateActiveBuffers
                 ELSE \* calling an `async def` only makes a coroutine
                      \* object, any other function runs to its end
                      /\ aa_next' = aa_next + 1
                      /\ aa_called' = IF IsAsyncDef(func) THEN aa_called
                                      ELSE Append(aa_called, func)
                      /\ UNCHANGED <<lbin_buffer, active_occurrences,
                                     lbin_history, aa_cache_count,
                                     buffer_calls, observed, flushes,
                                     last_flush, crashed, aa_pc>>
    /\ UNCHANGED <<clock, config, phase, aa_handlers, active_auctions,
                   aa_last_update, aa_T, aa_res, aa_parsed, aa_batch_start,
                   aa_rounds, accepted, notActive>>

\* the awaited handler returns
AaHandlerReturn ==
    /\ Alive
    /\ aa_pc = "notifying"
    /\ aa_awaiting # 0
    /\ aa_called' = Append(aa_called, aa_handlers[aa_awaiting])
    /\ aa_next' = aa_awaiting + 1
    /\ aa_awaiting' = 0
    /\ UNCHANGED <<clock, config, phase, crashed, aa_handlers, activeState,
                   aa_pc, aa_T, aa_res, aa_parsed, aa_batch_start,
                   activeHistory, notActive>>

\* cache_active_auctions returns: await asyncio.sleep(AA_COOLDOWN)
AaDone ==
    /\ Alive
    /\ aa_pc = "notifying"
    /\ aa_awaiting = 0
    /\ aa_next > Len(aa_handlers)
    /\ aa_pc' = "cooldown"
    /\ UNCHANGED <<clock, config, phase, crashed, aa_handlers, activeState,
                   aa_T, aa_res, aa_parsed, aa_batch_start, aa_next,
                   aa_awaiting, aa_called, activeHistory, notActive>>

\* AuctionHouse.__init__, with the configuration read at import
InitHouse ==
    /\ clock = 0
    /\ limit = 1
    /\ LimiterIdle
    /\ feed_pages = 1
    /\ AcquireIdle
    /\ config \in { c \in Configs : c.EA_CLEAR_THRESHOLD = 1 }
    /\ HouseIdle
    /\ BazaarIdle
    /\ NbtIdle
    /\ DbIdle
    /\ PollIdle

NextActive ==
    \/ \E handler \in ActiveHandlers : OnActiveAuctions(handler)
    \/ StartCaching
    \/ AaBegin
    \/ AaAcquireFailed
    \/ AaAcquired
    \/ AaBatch
    \/ AaAccept
    \/ AaNotify
    \/ AaHandlerReturn
    \/ AaDone

Spec == InitHouse /\ [][NextActive]_vars

(***************************************************************************)
(* AuctionHouse: the ended-auctions loop                                   *)
(***************************************************************************)
\* EndedAuction.__init__
EndedAuction(d) ==
    LET item == make_item(d.item_bytes) IN
      IF item.exc # None
      THEN Raised(item.exc)
      ELSE Returned([auction_id |-> d.auction_id,
                     is_bin |-> d.bin,
                     price |-> d.price,
                     item |-> item.value])

\* the records the ended-auctions endpoint may hold at the update of `ms`
EndedRecords(ms) ==
    { [auction_id |-> "e1", bin |-> TRUE, timestamp |-> ms - 1000,
       price |-> 40, item_bytes |-> "A"],
      [auction_id |-> "e2", bin |-> FALSE, timestamp |-> ms - 2000,
       price |-> 60, item_bytes |-> "A2"],
      [auction_id |-> "e3", bin |-> TRUE, timestamp |-> ms - 3000,
       price |-> 5, item_bytes |-> "BAD"] }

\* the snapshots get_ended_auctions may return for the update of `ms`
EndedSnapshots(ms) == SeqsUpTo(EndedRecords(ms), MaxListings)

\* a sold buffer that takes no sample
AppendNothing(buffer, auctions, n) == buffer

\* the loop `self.sold_buffer[key].append(auction.unit_price)`
RECURSIVE AppendSold(_, _, _)
AppendSold(buffer, auctions, n) ==
    IF n = 0 THEN buffer
    ELSE LET before == AppendSold(buffer, auctions, n - 1)
             key == KeyOf(auctions[n])
         IN [k \in DOMAIN before \cup {key} |->
               (IF k \in DOMAIN before THEN before[k] ELSE << >>)
               \o (IF k = key THEN << unit_price(auctions[n]) >> ELSE << >>)]

\* start_ea_caching: the next cache_ended_auctions begins, it awaits
\* self.api.get_ended_auctions()
EaBegin ==
    /\ Alive
    /\ ea_pc \in {"loop", "cooldown"}
    /\ Rounds < MaxSnapshots
    /\ ea_pc' = "acquiring"
    /\ ea_rounds' = ea_rounds + 1
    /\ UNCHANGED <<clock, config, phase, crashed, ea_handlers, ended_auctions,
                   ea_last_update, ea_cache_count, sold_buffer, ea_T, ea_next,
                   ea_awaiting, ea_called, avg_sale_history,
                   sold_flushed, notEnded>>

\* get_ended_auctions raised
EaAcquireFailed ==
    /\ Alive
    /\ ea_pc = "acquiring"
    /\ \E exc \in {"ResponseCodeError", "MalformedResponseError"} : Crash(exc)
    /\ ea_pc' = "raised"
    /\ UNCHANGED <<clock, config, phase, ea_handlers, ended_auctions,
                   ea_last_update, ea_cache_count, sold_buffer, ea_T, ea_next,
                   ea_awaiting, ea_called, ea_rounds, avg_sale_history,
                   sold_flushed, notEnded>>

\* get_ended_auctions returned (last_update, res): up to the first handler
\* nothing is awaited
EaAcquired ==
    /\ Alive
    /\ ea_pc = "acquiring"
    /\ \E last_update \in {ea_last_update, NextUpdate(ea_last_update)} \ {Never} :
       \E res \in EndedSnapshots(last_update \div 1000) :
         LET parsed == [i \in 1..Len(res) |-> EndedAuction(res[i])] IN
         /\ ea_T' = last_update
         /\ IF AlreadyCached(last_update, ea_last_update)
            THEN /\ ea_pc' = "cooldown"
                 /\ UNCHANGED <<crashed, ended_auctions, ea_last_update,
                                ea_cache_count, ea_next, ea_called>>
            ELSE IF \E i \in 1..Len(parsed) : parsed[i].exc # None
            THEN /\ Crash(parsed[FirstRaised(parsed)].exc)
                 /\ ea_pc' = "raised"
                 /\ UNCHANGED <<ended_auctions, ea_last_update,
                                ea_cache_count, ea_next, ea_called>>
            ELSE /\ ended_auctions' =
                        SelectSeq([i \in 1..Len(parsed) |-> parsed[i].value],
                                  LAMBDA auction : has_ascii_base_name(auction.item))
                 /\ ea_last_update' = last_update
                 /\ ea_cache_count' = ea_cache_count + 1
                 /\ ea_pc' = "notifying"
                 /\ ea_next' = 1
                 /\ ea_called' = << >>
                 /\ UNCHANGED crashed
    /\ UNCHANGED <<clock, config, phase, ea_handlers, sold_buffer, ea_awaiting,
                   ea_rounds, avg_sale_history,
                   sold_flushed, notEnded>>

\* update_ended_buffers(ended_auctions, **kwargs)
UpdateEndedBuffers ==
    LET buffer == AppendSold(sold_buffer, ended_auctions, Len(ended_auctions))
    IN IF ea_cache_count = config.EA_CLEAR_THRESHOLD
       THEN \* "TODO pass it to DB": nothing is called here
            /\ ea_cache_count' = 0
            /\ sold_buffer' = << >>
            /\ sold_flushed' = [resets |-> sold_flushed.resets + 1,
                                items |-> buffer]
       ELSE /\ sold_buffer' = buffer
            /\ UNCHANGED <<ea_cache_count, sold_flushed>>

\* "Notify the handlers": the next handler is called, or awaited
EaNotify ==
    /\ Alive
    /\ ea_pc = "notifying"
    /\ ea_awaiting = 0
    /\ ea_next <= Len(ea_handlers)
    /\ LET func == ea_handlers[ea_next] IN
         IF IsCoroutineFunction(func)
         THEN /\ ea_awaiting' = ea_next
              /\ UNCHANGED <<ea_cache_count, sold_buffer, sold_flushed, ea_next,
                             ea_called>>
         ELSE /\ UNCHANGED ea_awaiting
              /\ ea_next' = ea_next + 1
              /\ ea_called' = IF IsAsyncDef(func) THEN ea_called
                              ELSE Append(ea_called, func)
              /\ IF func = "update_ended_buffers"
                 THEN UpdateEndedBuffers
                 ELSE UNCHANGED <<ea_cache_count, sold_buffer, sold_flushed>>
    /\ UNCHANGED <<clock, config, phase, crashed, ea_handlers, ended_auctions,
                   ea_last_update, ea_pc, ea_T, ea_rounds, avg_sale_history,
                   notEnded>>

\* the awaited handler returns
EaHandlerReturn ==
    /\ Alive
    /\ ea_pc = "notifying"
    /\ ea_awaiting # 0
    /\ ea_called' = Append(ea_called, ea_handlers[ea_awaiting])
    /\ ea_next' = ea_awaiting + 1
    /\ ea_awaiting' = 0
    /\ UNCHANGED <<clock, config, phase, crashed, ea_handlers, ended_auctions,
                   ea_last_update, ea_cache_count, sold_buffer, ea_pc, ea_T,
                   ea_rounds, avg_sale_history,
                   sold_flushed, notEnded>>

\* cache_ended_auctions returns: await asyncio.sleep(EA_COOLDOWN)
EaDone ==
    /\ Alive
    /\ ea_pc = "notifying"
    /\ ea_awaiting = 0
    /\ ea_next > Len(ea_handlers)
    /\ ea_pc' = "cooldown"
    /\ UNCHANGED <<clock, config, phase, crashed, ea_handlers, ended_auctions,
                   ea_last_update, ea_cache_count, sold_buffer, ea_T, ea_next,
                   ea_awaiting, ea_called, ea_rounds, avg_sale_history,
                   sold_flushed, notEnded>>

(***************************************************************************)
(* Bazaar                                                                  *)
(***************************************************************************)
\* BazaarProduct.__init__
BazaarProduct(item_id, d) ==
    [item_id |-> item_id,
     buy_price |-> d.quick_status.buyPrice,
     sell_price |-> d.quick_status.sellPrice,
     buy_volume |-> d.quick_status.buyVolume,
     sell_volume |-> d.quick_status.sellVolume]

\* the `products` objects the bazaar endpoint may hold, as lists of items
BazaarResponses ==
    LET wheat == <<"WHEAT", [quick_status |-> [buyPrice |-> 3, sellPrice |-> 2,
                                               buyVolume |-> 9, sellVolume |-> 7]]>>
        coal == <<"COAL", [quick_status |-> [buyPrice |-> 5, sellPrice |-> 4,
                                             buyVolume |-> 1, sellVolume |-> 6]]>>
    IN { << >>, <<wheat>>, <<wheat, coal>> }

\* Bazaar.start_caching: the next cache_products begins, it awaits
\* self.api.get_bazaar_products()
BzBegin ==
    /\ Alive
    /\ bz_pc \in {"loop", "cooldown"}
    /\ Rounds < MaxSnapshots
    /\ bz_pc' = "acquiring"
    /\ bz_rounds' = bz_rounds + 1
    /\ UNCHANGED <<clock, config, phase, crashed, bz_handlers, products,
                   bz_last_update, bz_T, bz_next, bz_awaiting, bz_called,
                   notBazaar>>

\* get_bazaar_products raised
BzAcquireFailed ==
    /\ Alive
    /\ bz_pc = "acquiring"
    /\ \E exc \in {"ResponseCodeError", "MalformedResponseError"} : Crash(exc)
    /\ bz_pc' = "raised"
    /\ UNCHANGED <<clock, config, phase, bz_handlers, products, bz_last_update,
                   bz_T, bz_next, bz_awaiting, bz_called, bz_rounds, notBazaar>>

\* get_bazaar_products returned (last_update, res)
BzAcquired ==
    /\ Alive
    /\ bz_pc = "acquiring"
    /\ \E last_update \in {bz_last_update, NextUpdate(bz_last_update)} \ {Never} :
       \E res \in BazaarResponses :
         /\ bz_T' = last_update
         /\ IF AlreadyCached(last_update, bz_last_update)
            THEN /\ bz_pc' = "cooldown"
                 /\ UNCHANGED <<products, bz_last_update, bz_next, bz_called>>
            ELSE /\ products' = [i \in 1..Len(res) |->
                                    BazaarProduct(res[i][1], res[i][2])]
                 /\ bz_last_update' = last_update
                 /\ bz_pc' = "notifying"
                 /\ bz_next' = 1
                 /\ bz_called' = << >>
    /\ UNCHANGED <<clock, config, phase, crashed, bz_handlers, bz_awaiting,
                   bz_rounds, notBazaar>>

\* "Notify the handlers": the next handler is called, or awaited
BzNotify ==
    /\ Alive
    /\ bz_pc = "notifying"
    /\ bz_awaiting = 0
    /\ bz_next <= Len(bz_handlers)
    /\ LET func == bz_handlers[bz_next] IN
         IF IsCoroutineFunction(func)
         THEN /\ bz_awaiting' = bz_next
              /\ UNCHANGED <<bz_next, bz_called>>
         ELSE /\ UNCHANGED bz_awaiting
              /\ bz_next' = bz_next + 1
              /\ bz_called' = IF IsAsyncDef(func) THEN bz_called
                              ELSE Append(bz_called, func)
    /\ UNCHANGED <<clock, config, phase, crashed, bz_handlers, products,
                   bz_last_update, bz_pc, bz_T, bz_rounds, notBazaar>>

\* the awaited handler returns
BzHandlerReturn ==
    /\ Alive
    /\ bz_pc = "notifying"
    /\ bz_awaiting # 0
    /\ bz_called' = Append(bz_called, bz_handlers[bz_awaiting])
    /\ bz_next' = bz_awaiting + 1
    /\ bz_awaiting' = 0
    /\ UNCHANGED <<clock, config, phase, crashed, bz_handlers, products,
                   bz_last_update, bz_pc, bz_T, bz_rounds, notBazaar>>

\* cache_products returns: await asyncio.sleep(BZ_COOLDOWN)
BzDone ==
    /\ Alive
    /\ bz_pc = "notifying"
    /\ bz_awaiting = 0
    /\ bz_next > Len(bz_handlers)
    /\ bz_pc' = "cooldown"
    /\ UNCHANGED <<clock, config, phase, crashed, bz_handlers, products,
                   bz_last_update, bz_T, bz_next, bz_awaiting, bz_called,
                   bz_rounds, notBazaar>>

(***************************************************************************)
(* The three caching loops of one program                                  *)
(***************************************************************************)
\* main(): the objects are constructed, the handlers registered and the
\* caching loops started
InitFeeds ==
    /\ clock = 0
    /\ limit = 1
    /\ LimiterIdle
    /\ feed_pages = 1
    /\ AcquireIdle
    /\ config \in { c \in Configs : /\ c.AA_CLEAR_THRESHOLD = 1
                                    /\ c.EA_CLEAR_THRESHOLD = 1
                                    /\ c.AA_BATCH_SIZE = 1 }
    /\ phase = "running"
    /\ aa_handlers = <<"update_active_buffers", "refresh_dashboards">>
    /\ ea_handlers = <<"update_ended_buffers", "refresh_dashboards">>
    /\ bz_handlers = <<"print_bz_summary", "refresh_dashboards">>
    /\ HouseFresh
    /\ BazaarFresh
    /\ NbtIdle
    /\ DbIdle
    /\ PollIdle

NextFeeds ==
    \/ AaBegin
    \/ AaAcquireFailed
    \/ AaAcquired
    \/ AaBatch
    \/ AaAccept
    \/ AaNotify
    \/ AaHandlerReturn
    \/ AaDone
    \/ EaBegin
    \/ EaAcquireFailed
    \/ EaAcquired
    \/ EaNotify
    \/ EaHandlerReturn
    \/ EaDone
    \/ BzBegin
    \/ BzAcquireFailed
    \/ BzAcquired
    \/ BzNotify
    \/ BzHandlerReturn
    \/ BzDone

SpecFeeds == InitFeeds /\ [][NextFeeds]_vars

(***************************************************************************)
(* nbtparse: the decoder of the embedded item metadata                     *)
(***************************************************************************)
\* Python values carry their class; a str is its sequence of code points
PyInt(n) == [class |-> "int", n |-> n]
Str(chars) == [class |-> "str", chars |-> chars]
Float(bits) == [class |-> "float", bits |-> bits]
Tuple(items) == [class |-> "tuple", items |-> items]
List(items) == [class |-> "list", items |-> items]
NbtTag(name, value) == [class |-> "NbtTag", name |-> name, value |-> value]

\* an io.BytesIO over the input: the position, and as history whether a
\* read came back shorter than asked and whether PARSERS was indexed from
\* its end
Opened == [pos |-> 0, short |-> FALSE, wrapped |-> FALSE]

\* bytes_f.read(n)
Read(bytes, f, n) ==
    LET end == IF f.pos + n <= Len(bytes) THEN f.pos + n ELSE Len(bytes)
    IN [data |-> SubSeq(bytes, f.pos + 1, end),
        f |-> [f EXCEPT !.pos = end,
                        !.short = f.short \/ f.pos + n > Len(bytes)]]

\* the number a sequence of digits denotes, most significant digit first
RECURSIVE Radix(_, _, _)
Radix(base, acc, digits) ==
    IF digits = << >> THEN acc
    ELSE Radix(base, acc * base + Head(digits), Tail(digits))

\* int.from_bytes(data, byteorder='big', signed=signed)
from_bytes(data, signed) ==
    IF data = << >> THEN 0
    ELSE Radix(256,
               IF signed /\ data[1] >= 128 THEN data[1] - 256 ELSE data[1],
               Tail(data))

\* _pop_byte, _pop_short, _pop_int, _pop_long read 1, 2, 4, 8 bytes signed,
\* _pop_ushort 2 bytes unsigned
Pop(bytes, f, width, signed) ==
    LET r == Read(bytes, f, width)
    IN [n |-> from_bytes(r.data, signed), f |-> r.f]

\* the number of bytes of the UTF-8 sequence a byte starts, 0 if it starts none
Utf8Width(b) ==
    IF b < 128 THEN 1
    ELSE IF b >= 194 /\ b <= 223 THEN 2
    ELSE IF b >= 224 /\ b <= 239 THEN 3
    ELSE IF b >= 240 /\ b <= 244 THEN 4
    ELSE 0

\* the bytes after the first of a sequence: continuation bytes, and neither
\* an overlong form, a surrogate nor a code point above U+10FFFF
WellContinued(data, w) ==
    /\ \A i \in 2..w : data[i] >= 128 /\ data[i] <= 191
    /\ data[1] = 224 => data[2] >= 160
    /\ data[1] = 237 => data[2] <= 159
    /\ data[1] = 240 => data[2] >= 144
    /\ data[1] = 244 => data[2] <= 143

\* bytes.decode('utf-8'): the code points, or the error
RECURSIVE Utf8Decode(_)
Utf8Decode(data) ==
    IF data = << >> THEN Returned(<< >>)
    ELSE LET w == Utf8Width(data[1])
         IN IF w = 0 \/ w > Len(data) \/ ~WellContinued(data, w)
            THEN Raised("UnicodeDecodeError")
            ELSE LET lead == IF w = 1 THEN data[1]
                             ELSE IF w = 2 THEN data[1] - 192
                             ELSE IF w = 3 THEN data[1] - 224
                             ELSE data[1] - 240
                     point == Radix(64, lead,
                                    [i \in 1..(w - 1) |-> data[i + 1] - 128])
                     rest == Utf8Decode(SubSeq(data, w + 1, Len(data)))
                 IN IF rest.exc # None THEN rest
                    ELSE Returned(<<point>> \o rest.value)

\* what a parser hands back: the tag and the stream behind it, or the error
Parsed(tag, f) == [exc |-> None, tag |-> tag, f |-> f]
Failed(exc, f) == [exc |-> exc, tag |-> NoneType, f |-> f]

\* _pop_string
pop_string(bytes, f) ==
    LET payload == Pop(bytes, f, 2, FALSE)
        body == Read(bytes, payload.f, payload.n)
        text == Utf8Decode(body.data)
    IN IF text.exc # None THEN Failed(text.exc, body.f)
       ELSE Parsed(Str(text.value), body.f)

\* name = _pop_string(bytes_f) if read_name else ''
ReadName(bytes, f, read_name) ==
    IF read_name THEN pop_string(bytes, f) ELSE Parsed(Str(<< >>), f)

\* PARSERS, a Python list: index k is element k + 1 here
PARSERS ==
    <<None, "parse_byte", "parse_short", "parse_int", "parse_long",
      "parse_float", "parse_double", "parse_byte_array", "parse_string",
      "parse_list", "parse_compound", "parse_int_array", "parse_long_array">>

\* PARSERS[k]: a negative index counts from the end of the list
Subscript(list, k) ==
    IF k >= 0 /\ k < Len(list) THEN Returned(list[k + 1])
    ELSE IF k < 0 /\ k >= -Len(list) THEN Returned(list[Len(list) + k + 1])
    ELSE Raised("IndexError")

\* the width of the numbers a parser reads
Width(parser) ==
    CASE parser \in {"parse_byte", "parse_byte_array"} -> 1
      [] parser = "parse_short" -> 2
      [] parser \in {"parse_int", "parse_float", "parse_int_array"} -> 4
      [] OTHER -> 8

\* ret[tag.name] = tag.value on a dict, which keeps the order of insertion
SetItem(ret, key, value) ==
    IF \E i \in DOMAIN ret : ret[i].key = key
    THEN [i \in DOMAIN ret |->
            IF ret[i].key = key THEN [key |-> key, value |-> value]
            ELSE ret[i]]
    ELSE Append(ret, [key |-> key, value |-> value])

RECURSIVE Call(_, _, _, _)
RECURSIVE Elements(_, _, _, _, _)
RECURSIVE Members(_, _, _, _)

\* PARSERS[k](bytes_f, read_name=read_name)
Dispatch(k, bytes, f, read_name) ==
    LET parser == Subscript(PARSERS, k)
    IN IF parser.exc # None THEN Failed(parser.exc, f)
       ELSE IF parser.value = None THEN Failed("TypeError", f)
       ELSE Call(parser.value, bytes,
                 [f EXCEPT !.wrapped = f.wrapped \/ k < 0], read_name)

\* parse_list: for _ in range(payload): ret.append(PARSERS[content_type](...))
Elements(content_type, bytes, f, payload, ret) ==
    IF payload <= 0 THEN Parsed(ret, f)
    ELSE LET tag == Dispatch(content_type, bytes, f, FALSE)
         IN IF tag.exc # None THEN tag
            ELSE Elements(content_type, bytes, tag.f, payload - 1,
                          Append(ret, tag.tag))

\* parse_compound: while tag_type != 0
Members(tag_type, bytes, f, ret) ==
    IF tag_type = 0 THEN Parsed(ret, f)
    ELSE LET tag == Dispatch(tag_type, bytes, f, TRUE)
         IN IF tag.exc # None THEN tag
            ELSE LET next == Pop(bytes, tag.f, 1, TRUE)
                 IN Members(next.n, bytes, next.f,
                            SetItem(ret, tag.tag.name, tag.tag.value))

\* the twelve parsers
Call(parser, bytes, f, read_name) ==
    LET name == ReadName(bytes, f, read_name)
        w == Width(parser)
    IN IF name.exc # None THEN name
       ELSE CASE parser \in {"parse_byte", "parse_short", "parse_int",
                             "parse_long"} ->
                   LET v == Pop(bytes, name.f, w, TRUE)
                   IN Parsed(NbtTag(name.tag, PyInt(v.n)), v.f)
              [] parser \in {"parse_float", "parse_double"} ->
                   \* struct.unpack returns a tuple
                   LET v == Read(bytes, name.f, w)
                   IN IF Len(v.data) # w THEN Failed("struct.error", v.f)
                      ELSE Parsed(NbtTag(name.tag, Tuple(<<Float(v.data)>>)),
                                  v.f)
              [] parser \in {"parse_byte_array", "parse_int_array",
                             "parse_long_array"} ->
                   LET payload == Pop(bytes, name.f, 4, TRUE)
                       at(i) == [payload.f EXCEPT !.pos =
                                    IF @ + (i - 1) * w <= Len(bytes)
                                    THEN @ + (i - 1) * w ELSE Len(bytes)]
                       arr == [i \in 1..payload.n |->
                                 PyInt(Pop(bytes, at(i), w, TRUE).n)]
                       end == IF payload.n > 0
                              THEN Read(bytes, payload.f, payload.n * w).f
                              ELSE payload.f
                   IN Parsed(NbtTag(name.tag, List(arr)), end)
              [] parser = "parse_string" ->
                   LET v == pop_string(bytes, name.f)
                   IN IF v.exc # None THEN v
                      ELSE Parsed(NbtTag(name.tag, v.tag), v.f)
              [] parser = "parse_list" ->
                   LET content_type == Pop(bytes, name.f, 1, TRUE)
                       payload == Pop(bytes, content_type.f, 4, TRUE)
                       ret == Elements(content_type.n, bytes, payload.f,
                                       payload.n, << >>)
                   IN IF ret.exc # None THEN ret
                      ELSE Parsed(NbtTag(name.tag, List(ret.tag)), ret.f)
              [] parser = "parse_compound" ->
                   LET tag_type == Pop(bytes, name.f, 1, TRUE)
                       ret == Members(tag_type.n, bytes, tag_type.f, << >>)
                   IN IF ret.exc # None THEN ret
                      ELSE Parsed(NbtTag(name.tag, Dict(ret.tag)), ret.f)

\* a base-64 string: whether it is the base-64 form of a gzip stream, and
\* the bytes that stream holds
B64(well_formed, bytes) == [well_formed |-> well_formed, bytes |-> bytes]

\* deserialize
deserialize(b64) ==
    IF ~b64.well_formed THEN Failed("BadGzipFile", Opened)
    ELSE Call("parse_compound", b64.bytes,
              Pop(b64.bytes, Opened, 1, TRUE).f, TRUE)

\* the bytes the enumerated streams are made of: the terminator, tag types
\* of a scalar, a list and a compound, 13 behind the end of PARSERS, and
\* bytes _pop_byte reads as -13, -12 and -1
RawBytes == {0, 1, 9, 10, 13, 243, 244, 255}

\* an unnamed outer compound whose members are any bytes
RawStreams ==
    UNION { [1..n -> RawBytes] : n \in 0..MaxBody }

RawInputs == { B64(TRUE, <<10, 0, 0>> \o body) : body \in RawStreams }
             \cup {B64(FALSE, << >>)}

(***************************************************************************)
(* Tag trees and their encoding.  The repository has no encoder: the one   *)
(* here writes the format the parsers above read.                          *)
(***************************************************************************)
\* a tag of one of the twelve kinds: its type byte, its name and its payload
Tag(kind, name, payload) == [kind |-> kind, name |-> name, payload |-> payload]

\* n.to_bytes(width, byteorder='big'), two's complement
RECURSIVE to_bytes(_, _)
to_bytes(n, width) ==
    IF width = 0 THEN << >>
    ELSE Append(to_bytes(n \div 256, width - 1), n % 256)

\* str.encode('utf-8')
RECURSIVE Utf8Encode(_)
Utf8Encode(chars) ==
    IF chars = << >> THEN << >>
    ELSE LET c == Head(chars)
             first == IF c < 128 THEN <<c>>
                      ELSE IF c < 2048
                      THEN <<192 + (c \div 64), 128 + (c % 64)>>
                      ELSE IF c < 65536
                      THEN <<224 + (c \div 4096), 128 + ((c \div 64) % 64),
                             128 + (c % 64)>>
                      ELSE <<240 + (c \div 262144), 128 + ((c \div 4096) % 64),
                             128 + ((c \div 64) % 64), 128 + (c % 64)>>
         IN first \o Utf8Encode(Tail(chars))

\* a string with its 16-bit length prefix
EncodeString(chars) ==
    LET data == Utf8Encode(chars) IN to_bytes(Len(data), 2) \o data

RECURSIVE Encode(_, _)
RECURSIVE EncodeAll(_, _)

\* the encodings of tags one after the other, each behind its type byte when
\* typed is true
EncodeAll(tags, typed) ==
    IF tags = << >> THEN << >>
    ELSE (IF typed THEN <<Head(tags).kind>> ELSE << >>)
         \o Encode(Head(tags), typed) \o EncodeAll(Tail(tags), typed)

\* the name, if it is written, and the payload of a tag
Encode(tag, write_name) ==
    LET p == tag.payload
        \* the elements of an array are written as numbers of a scalar kind
        numbers(kind) ==
            EncodeAll([i \in DOMAIN p |-> Tag(kind, << >>, p[i])], FALSE)
    IN (IF write_name THEN EncodeString(tag.name) ELSE << >>) \o
       CASE tag.kind = 1 -> to_bytes(p, 1)
         [] tag.kind = 2 -> to_bytes(p, 2)
         [] tag.kind = 3 -> to_bytes(p, 4)
         [] tag.kind = 4 -> to_bytes(p, 8)
         [] tag.kind \in {5, 6} -> p
         [] tag.kind = 7 -> to_bytes(Len(p), 4) \o numbers(1)
         [] tag.kind = 8 -> EncodeString(p)
         [] tag.kind = 9 ->
              <<p.of>> \o to_bytes(Len(p.items), 4) \o EncodeAll(p.items, FALSE)
         [] tag.kind = 10 -> EncodeAll(p, TRUE) \o <<0>>
         [] tag.kind = 11 -> to_bytes(Len(p), 4) \o numbers(3)
         [] tag.kind = 12 -> to_bytes(Len(p), 4) \o numbers(4)

\* the stream of a tree: the type byte of the outer compound, then the tree
serialize(tree) == <<10>> \o Encode(tree, TRUE)

\* a tag tree as the objects of nbtparse: every tag an NbtTag of its name and
\* value, a compound a dict of its members' values, a list a list of tags
RECURSIVE Objects(_)
Objects(tag) ==
    LET p == tag.payload
    IN NbtTag(Str(tag.name),
         CASE tag.kind \in {1, 2, 3, 4} -> PyInt(p)
           [] tag.kind \in {5, 6} -> Float(p)
           [] tag.kind \in {7, 11, 12} -> List([i \in DOMAIN p |-> PyInt(p[i])])
           [] tag.kind = 8 -> Str(p)
           [] tag.kind = 9 -> List([i \in DOMAIN p.items |-> Objects(p.items[i])])
           [] tag.kind = 10 ->
                Dict([i \in DOMAIN p |->
                        [key |-> Str(p[i].name), value |-> Objects(p[i]).value]]))

(***************************************************************************)
(* str: the string operations the extractors use, on code points           *)
(***************************************************************************)
Capitals == "ABCDEFGHIJKLMNOPQRSTUVWXYZ"
Smalls == "abcdefghijklmnopqrstuvwxyz"
Digits == "0123456789"

\* the code point of each character of the literals
CodePoints ==
    [c \in UNION { {SubSeq(table, i, i) : i \in 1..Len(table)} :
                       table \in {Capitals, Smalls, Digits, " _"} } |->
        LET at(table) == CHOOSE i \in 1..Len(table) : SubSeq(table, i, i) = c
            within(table) == \E i \in 1..Len(table) : SubSeq(table, i, i) = c
        IN IF within(Capitals) THEN 64 + at(Capitals)
           ELSE IF within(Smalls) THEN 96 + at(Smalls)
           ELSE IF within(Digits) THEN 47 + at(Digits)
           ELSE CASE c = " " -> 32
                  [] c = "_" -> 95]

\* ord(c) of a one-character string
ord(c) == CodePoints[c]

\* the code points of a string literal
text(literal) == [i \in 1..Len(literal) |-> ord(SubSeq(literal, i, i))]

\* the section sign of the styling codes, and the glyph of a rune's name
SectionSign == 167
BlackDiamond == 9670

IsUpper(c) == c >= 65 /\ c <= 90
IsLower(c) == c >= 97 /\ c <= 122

\* str.upper, str.lower, on the letters of ASCII
upper(chars) == [i \in DOMAIN chars |->
                    IF IsLower(chars[i]) THEN chars[i] - 32 ELSE chars[i]]
lower(chars) == [i \in DOMAIN chars |->
                    IF IsUpper(chars[i]) THEN chars[i] + 32 ELSE chars[i]]

\* str.title: a letter behind a letter in lower case, any other in upper case
title(chars) ==
    [i \in DOMAIN chars |->
        IF i > 1 /\ (IsUpper(chars[i - 1]) \/ IsLower(chars[i - 1]))
        THEN lower(<<chars[i]>>)[1]
        ELSE upper(<<chars[i]>>)[1]]

\* str.replace(old, new) for single characters
replace(chars, old, new) ==
    [i \in DOMAIN chars |-> IF chars[i] = old THEN new ELSE chars[i]]

\* str(n) of an int
RECURSIVE Decimal(_)
Decimal(n) ==
    IF n < 0 THEN <<45>> \o Decimal(-n)
    ELSE IF n < 10 THEN <<48 + n>>
    ELSE Append(Decimal(n \div 10), 48 + (n % 10))

startswith(chars, prefix) ==
    Len(chars) >= Len(prefix) /\ SubSeq(chars, 1, Len(prefix)) = prefix
endswith(chars, suffix) ==
    /\ Len(chars) >= Len(suffix)
    /\ SubSeq(chars, Len(chars) - Len(suffix) + 1, Len(chars)) = suffix

\* the prefix removed as often as it leads the string
RECURSIVE RemoveEveryPrefix(_, _)
RemoveEveryPrefix(chars, prefix) ==
    IF prefix # << >> /\ startswith(chars, prefix)
    THEN RemoveEveryPrefix(SubSeq(chars, Len(prefix) + 1, Len(chars)), prefix)
    ELSE chars

\* str.removeprefix
removeprefix(chars, prefix) ==
    IF startswith(chars, prefix)
    THEN SubSeq(chars, Len(prefix) + 1, Len(chars))
    ELSE chars

\* the white space of str.strip and str.split
IsSpace(c) == c \in {9, 10, 11, 12, 13, 28, 29, 30, 31, 32, 133, 160}

\* str.strip()
strip(chars) ==
    LET kept == {i \in DOMAIN chars : ~IsSpace(chars[i])}
    IN IF kept = {} THEN << >>
       ELSE SubSeq(chars, CHOOSE i \in kept : \A j \in kept : i <= j,
                          CHOOSE i \in kept : \A j \in kept : i >= j)

\* str.split(): the runs of characters that are not white space
RECURSIVE split(_)
split(chars) ==
    LET s == strip(chars)
        spaces == {i \in DOMAIN s : IsSpace(s[i])}
    IN IF s = << >> THEN << >>
       ELSE IF spaces = {} THEN <<s>>
       ELSE LET cut == CHOOSE i \in spaces : \A j \in spaces : i <= j
            IN <<SubSeq(s, 1, cut - 1)>> \o split(SubSeq(s, cut + 1, Len(s)))

\* the characters of a string that are not in a set: re.sub('[...]', '', s)
without(chars, removed) ==
    SelectSeq(chars, LAMBDA c : c \notin removed)

\* _without_nbt_style: re.sub('§ka|§.', '', s).strip()
RECURSIVE Unstyled(_)
Unstyled(chars) ==
    IF chars = << >> THEN << >>
    ELSE IF /\ Len(chars) >= 3
            /\ SubSeq(chars, 1, 3) = <<SectionSign>> \o text("ka")
    THEN Unstyled(SubSeq(chars, 4, Len(chars)))
    ELSE IF Len(chars) >= 2 /\ chars[1] = SectionSign /\ chars[2] # 10
    THEN Unstyled(SubSeq(chars, 3, Len(chars)))
    ELSE <<chars[1]>> \o Unstyled(Tail(chars))

without_nbt_style(chars) == strip(Unstyled(chars))

(***************************************************************************)
(* nbtparse: the extractors, on the objects deserialize hands back         *)
(***************************************************************************)
\* the rest of a computation, unless its first part raised
Then(r, rest(_)) == IF r.exc # None THEN Raised(r.exc) ELSE rest(r.value)

\* a str object from a literal
K(literal) == Str(text(literal))

\* seq[k] of a Python sequence: a negative index counts from the end
Index(items, k) ==
    IF k >= 0 /\ k < Len(items) THEN Returned(items[k + 1])
    ELSE IF k < 0 /\ k >= -Len(items) THEN Returned(items[Len(items) + k + 1])
    ELSE Raised("IndexError")

\* obj[key]; NbtTag.__getitem__ is self.value[key]
RECURSIVE getitem(_, _)
getitem(obj, key) ==
    CASE obj.class = "NbtTag" -> getitem(obj.value, key)
      [] obj.class = "dict" ->
           IF \E i \in DOMAIN obj.items : obj.items[i].key = key
           THEN Returned(obj.items[CHOOSE i \in DOMAIN obj.items :
                                      obj.items[i].key = key].value)
           ELSE Raised("KeyError")
      [] obj.class \in {"list", "tuple"} ->
           IF key.class # "int" THEN Raised("TypeError")
           ELSE Index(obj.items, key.n)
      [] obj.class = "str" ->
           IF key.class # "int" THEN Raised("TypeError")
           ELSE Then(Index(obj.chars, key.n), LAMBDA c : Returned(Str(<<c>>)))
      [] OTHER -> Raised("TypeError")

\* obj[keys[1]][keys[2]]...
RECURSIVE Path(_, _)
Path(obj, keys) ==
    IF keys = << >> THEN Returned(obj)
    ELSE Then(getitem(obj, Head(keys)), LAMBDA v : Path(v, Tail(keys)))

\* obj.get(key, default): only a dict has the method
get(obj, key, default) ==
    IF obj.class # "dict" THEN Raised("AttributeError")
    ELSE LET found == getitem(obj, key)
         IN IF found.exc # None THEN Returned(default) ELSE found

\* key in obj
contains(obj, key) ==
    CASE obj.class = "dict" -> Returned(getitem(obj, key).exc = None)
      [] obj.class \in {"list", "tuple"} ->
           Returned(\E i \in DOMAIN obj.items : obj.items[i] = key)
      [] obj.class = "str" ->
           IF key.class # "str" THEN Raised("TypeError")
           ELSE Returned(\E i \in 0..Len(obj.chars) :
                           startswith(SubSeq(obj.chars, i + 1, Len(obj.chars)),
                                      key.chars))
      [] OTHER -> Raised("TypeError")

\* obj.items() as a list of pairs: only a dict has the method
items(obj) ==
    IF obj.class # "dict" THEN Raised("AttributeError")
    ELSE Returned(List([i \in DOMAIN obj.items |->
                          Tuple(<<obj.items[i].key, obj.items[i].value>>)]))

\* tag.value: only an NbtTag has the attribute
value(obj) ==
    IF obj.class # "NbtTag" THEN Raised("AttributeError")
    ELSE Returned(obj.value)

\* bool(obj)
truth(obj) ==
    CASE obj.class = "NoneType" -> FALSE
      [] obj.class = "int" -> obj.n # 0
      [] obj.class = "str" -> obj.chars # << >>
      [] obj.class \in {"list", "tuple", "dict"} -> obj.items # << >>
      [] OTHER -> TRUE

\* f'{obj}' of an int, a str or None
format(obj) ==
    CASE obj.class = "int" -> Decimal(obj.n)
      [] obj.class = "str" -> obj.chars
      [] obj.class = "NoneType" -> text("None")

\* a, b = obj
unpack(obj) ==
    IF obj.class \notin {"list", "tuple"} THEN Raised("TypeError")
    ELSE IF Len(obj.items) # 2 THEN Raised("ValueError")
    ELSE Returned(obj.items)

\* re.sub(pattern, '', s) of the extractors, which needs a str
AsStr(obj) ==
    IF obj.class # "str" THEN Raised("TypeError") ELSE Returned(obj.chars)

\* _get_extra_attrs
get_extra_attrs(tree) ==
    Path(tree, <<K("i"), PyInt(0), K("tag"), K("ExtraAttributes")>>)

\* extract_api_id
extract_api_id(tree) ==
    Then(get_extra_attrs(tree), LAMBDA extra_attrs :
         getitem(extra_attrs, K("id")))

\* extract_generic_display_name
extract_generic_display_name(tree) ==
    Then(Path(tree, <<K("i"), PyInt(0), K("tag"), K("display"), K("Name")>>),
         LAMBDA name :
    Then(AsStr(name), LAMBDA chars : Returned(Str(without_nbt_style(chars)))))

\* extract_reforge
extract_reforge(tree) ==
    Then(get_extra_attrs(tree), LAMBDA extra_attrs :
         get(extra_attrs, K("modifier"), NoneType))

\* the decorative glyphs extract_generic_base_name removes
Glyphs == {10026, 9882, 10022, BlackDiamond, 8482, 169, 65533}

\* s.split(' ', 1)[-1] and s.rsplit(' ', 1)[0]
AfterFirstSpace(chars) ==
    LET spaces == {i \in DOMAIN chars : chars[i] = 32}
    IN IF spaces = {} THEN chars
       ELSE SubSeq(chars, 1 + CHOOSE i \in spaces : \A j \in spaces : i <= j,
                   Len(chars))
BeforeLastSpace(chars) ==
    LET spaces == {i \in DOMAIN chars : chars[i] = 32}
    IN IF spaces = {} THEN chars
       ELSE SubSeq(chars, 1,
                   (CHOOSE i \in spaces : \A j \in spaces : i >= j) - 1)

\* REFORGE_EXCEPTIONS.get(name, general_case): exceptions/reforges.json is
\* not in the repository; no name is taken to be listed
reforge_exception(name, general_case) == general_case

\* ENCHANT_EXCEPTIONS.get(enchant, enchant): exceptions/enchants.json is not
\* in the repository; the table drops the "ultimate" prefix of an enchant
\* code, except for ultimate_wise and ultimate_jerry
enchant_exception(enchant) ==
    IF /\ startswith(enchant, text("ultimate_"))
       /\ enchant \notin {text("ultimate_wise"), text("ultimate_jerry")}
    THEN removeprefix(enchant, text("ultimate_"))
    ELSE enchant

\* constants.RARITIES.keys(): backend/constants.py is not in the repository
RARITIES ==
    { text(r) : r \in {"COMMON", "UNCOMMON", "RARE", "EPIC", "LEGENDARY",
                       "MYTHIC", "SUPREME", "SPECIAL", "VERY_SPECIAL"} }

\* extract_generic_base_name
extract_generic_base_name(tree) ==
    Then(extract_generic_display_name(tree), LAMBDA display_name :
    Then(extract_reforge(tree), LAMBDA reforge :
         LET name == strip(without(display_name.chars, Glyphs))
         IN IF ~truth(reforge) THEN Returned(Str(name))
            ELSE Returned(Str(reforge_exception(name, AfterFirstSpace(name))))))

\* extract_enchants
extract_enchants(tree) ==
    Then(get_extra_attrs(tree), LAMBDA extra_attrs :
    Then(get(extra_attrs, K("enchantments"), Dict(<< >>)), LAMBDA enchantments :
         items(enchantments)))

\* an extractor that finds no rune on any item
RuneAbsent(tree) ==
    Then(get_extra_attrs(tree), LAMBDA extra_attrs : Returned(NoneType))

\* extract_rune
extract_rune(tree) ==
    Then(get_extra_attrs(tree), LAMBDA extra_attrs :
    Then(contains(extra_attrs, K("runes")), LAMBDA present :
         IF ~present THEN Returned(NoneType)
         ELSE Then(getitem(extra_attrs, K("runes")), LAMBDA runes :
              Then(items(runes), LAMBDA pairs : getitem(pairs, PyInt(0))))))

\* json.loads of '{}' and of an object of one string member, the forms of
\* petInfo among the items constructed here
json_loads(obj) ==
    IF obj.class # "str" THEN Raised("TypeError")
    ELSE LET s == obj.chars
             quotes == {i \in DOMAIN s : s[i] = 34}
             q(k) == CHOOSE i \in quotes :
                        Cardinality({j \in quotes : j < i}) = k - 1
         IN IF s = <<123, 125>> THEN Returned(Dict(<< >>))
            ELSE IF /\ Cardinality(quotes) = 4
                    /\ s[1] = 123 /\ q(1) = 2
                    /\ q(3) = q(2) + 2 /\ s[q(2) + 1] = 58
                    /\ q(4) = Len(s) - 1 /\ s[Len(s)] = 125
            THEN Returned(Dict(<<[key |-> Str(SubSeq(s, 3, q(2) - 1)),
                                 value |-> Str(SubSeq(s, q(3) + 1, q(4) - 1))]>>))
            ELSE Raised("JSONDecodeError")

\* _get_pet_attrs
get_pet_attrs(tree) ==
    Then(get_extra_attrs(tree), LAMBDA extra_attrs :
    Then(get(extra_attrs, K("petInfo"), Str(<<123, 125>>)), LAMBDA as_str :
         json_loads(as_str)))

\* extract_pet_type
extract_pet_type(tree) ==
    Then(get_pet_attrs(tree), LAMBDA pet_attrs :
         get(pet_attrs, K("type"), NoneType))

\* extract_pet_exp
extract_pet_exp(tree) ==
    Then(get_pet_attrs(tree), LAMBDA pet_attrs :
         get(pet_attrs, K("exp"), PyInt(0)))

\* extract_pet_candy_used
extract_pet_candy_used(tree) ==
    Then(get_pet_attrs(tree), LAMBDA pet_attrs :
         get(pet_attrs, K("candyUsed"), PyInt(0)))

\* the three identifiers of an item
Identifiers(item_id, base_name, display_name) ==
    Returned([item_id |-> Str(item_id), base_name |-> Str(base_name),
              display_name |-> Str(display_name)])

\* the general case alone: no item has identifiers of its own kind
GeneralIdentifiers(tree) ==
    Then(extract_api_id(tree), LAMBDA api_id :
    IF api_id.class # "str" THEN Raised("AttributeError")
    ELSE Then(extract_generic_base_name(tree), LAMBDA base :
         Then(extract_generic_display_name(tree), LAMBDA display_name :
              Identifiers(removeprefix(api_id.chars, text("STARRED_")),
                          base.chars, display_name.chars))))

\* extract_identifiers
extract_identifiers(tree) ==
    Then(extract_api_id(tree), LAMBDA api_id :
    LET enchants == IF api_id = K("ENCHANTED_BOOK") THEN extract_enchants(tree)
                    ELSE Returned(List(<< >>))
    IN
    Then(enchants, LAMBDA found :
    IF api_id = K("ENCHANTED_BOOK") /\ Len(found.items) = 1
    THEN LET enchant == enchant_exception(found.items[1].items[1].chars)
             lvl == found.items[1].items[2]
             item_id == upper(enchant) \o text("_") \o format(lvl)
                            \o text("_BOOK")
             base_name == replace(title(item_id), 95, 32)
         IN Identifiers(item_id, base_name, base_name)
    ELSE IF api_id = K("RUNE")
    THEN Then(extract_rune(tree), LAMBDA pair :
         Then(unpack(pair), LAMBDA rl :
         Then(extract_generic_base_name(tree), LAMBDA base :
         Then(extract_generic_display_name(tree), LAMBDA display_name :
              Identifiers(format(rl[1]) \o text("_RUNE_") \o format(rl[2]),
                          BeforeLastSpace(base.chars) \o text(" ")
                              \o format(rl[2]),
                          display_name.chars)))))
    ELSE IF api_id = K("PET")
    THEN Then(extract_pet_type(tree), LAMBDA pet_type :
         Then(extract_generic_display_name(tree), LAMBDA display_name :
         LET item_id == format(pet_type) \o text("_PET")
         IN Identifiers(item_id, replace(title(item_id), 95, 32),
                        display_name.chars)))
    ELSE IF api_id = K("CAKE_SOUL")
    THEN Then(extract_generic_display_name(tree), LAMBDA display_name :
              Identifiers(text("CAKE_SOUL"), text("Cake Soul"),
                          display_name.chars))
    ELSE IF api_id.class # "str" THEN Raised("AttributeError")
    ELSE Then(extract_generic_base_name(tree), LAMBDA base :
         Then(extract_generic_display_name(tree), LAMBDA display_name :
              Identifiers(removeprefix(api_id.chars, text("STARRED_")),
                          base.chars, display_name.chars)))))

\* extract_stack_size
extract_stack_size(tree) == Path(tree, <<K("i"), PyInt(0), K("Count")>>)

\* the rarity line left as it is, whatever the lore holds
LastLineOnly(lore, rarity_line) == Returned(rarity_line)

\* extract_rarity: for tag in lore, the last line ending in COSMETIC wins
RECURSIVE CosmeticLine(_, _)
CosmeticLine(lore, rarity_line) ==
    IF lore = << >> THEN Returned(rarity_line)
    ELSE Then(value(Head(lore)), LAMBDA line :
         Then(AsStr(line), LAMBDA chars :
              CosmeticLine(Tail(lore),
                  IF endswith(without_nbt_style(chars), text("COSMETIC"))
                  THEN line ELSE rarity_line)))

\* extract_rarity, inside the try
RarityOf(tree) ==
    Then(Path(tree, <<K("i"), PyInt(0), K("tag"), K("display"), K("Lore")>>),
         LAMBDA lore :
    Then(getitem(lore, PyInt(-1)), LAMBDA last :
    Then(value(last), LAMBDA last_line :
    Then(extract_api_id(tree), LAMBDA api_id :
    Then(IF api_id # K("RUNE") THEN Returned(last_line)
         ELSE CosmeticLine(lore.items, last_line), LAMBDA rarity_line :
    Then(AsStr(rarity_line), LAMBDA chars :
    Then(Index(split(without_nbt_style(chars)), 0), LAMBDA word :
         LET rarity == IF word # text("VERY") THEN word
                       ELSE text("VERY_SPECIAL")
         IN Returned(Str(IF rarity \in RARITIES THEN rarity
                         ELSE text("UNKNOWN"))))))))))

\* extract_rarity: except KeyError
extract_rarity(tree) ==
    IF RarityOf(tree).exc = "KeyError" THEN Returned(K("UNKNOWN"))
    ELSE RarityOf(tree)

\* extract_is_recombobulated
extract_is_recombobulated(tree) ==
    Then(get_extra_attrs(tree), LAMBDA extra_attrs :
         contains(extra_attrs, K("rarity_upgrades")))

\* extract_is_fragged
extract_is_fragged(tree) ==
    Then(extract_api_id(tree), LAMBDA api_id :
         IF api_id.class # "str" THEN Raised("AttributeError")
         ELSE Returned(startswith(api_id.chars, text("STARRED_"))))

\* a count that starts from one where the item has no entry
CountFromOne(tree, key) ==
    Then(get_extra_attrs(tree), LAMBDA extra_attrs :
         get(extra_attrs, K(key), PyInt(1)))

\* extract_hot_potato_count, extract_dungeon_stars
extract_count(tree, key) ==
    Then(get_extra_attrs(tree), LAMBDA extra_attrs :
         get(extra_attrs, K(key), PyInt(0)))

\* GenericItem.__init__ behind deserialize: the attributes in the order they
\* are set, up to the first extractor that raises
GenericItem(tree) ==
    Then(extract_identifiers(tree), LAMBDA identifiers :
    Then(extract_stack_size(tree), LAMBDA stack_size :
    Then(extract_rarity(tree), LAMBDA rarity :
    Then(extract_rune(tree), LAMBDA rune :
    Then(extract_enchants(tree), LAMBDA enchants :
    Then(extract_is_recombobulated(tree), LAMBDA is_recombobulated :
    Then(extract_is_fragged(tree), LAMBDA is_fragged :
    Then(extract_count(tree, "hot_potato_count"), LAMBDA hot_potato_count :
    Then(extract_reforge(tree), LAMBDA reforge :
    Then(extract_count(tree, "dungeon_item_level"), LAMBDA dungeon_stars :
         Returned([item_id |-> identifiers.item_id,
                   base_name |-> identifiers.base_name,
                   display_name |-> identifiers.display_name,
                   stack_size |-> stack_size,
                   rarity |-> rarity,
                   rune |-> rune,
                   enchants |-> enchants,
                   is_recombobulated |-> is_recombobulated,
                   is_fragged |-> is_fragged,
                   hot_potato_count |-> hot_potato_count,
                   reforge |-> reforge,
                   dungeon_stars |-> dungeon_stars])))))))))))

\* a payload of every kind, negative numbers, and nested lists and compounds
Payloads ==
    << [kind |-> 1, payload |-> 5], [kind |-> 1, payload |-> -1],
       [kind |-> 2, payload |-> -2], [kind |-> 3, payload |-> 70000],
       [kind |-> 4, payload |-> -70000],
       [kind |-> 5, payload |-> <<63, 192, 0, 0>>],
       [kind |-> 6, payload |-> <<63, 248, 0, 0, 0, 0, 0, 0>>],
       [kind |-> 7, payload |-> <<1, -1>>],
       [kind |-> 8, payload |-> <<167, 102, 9670>>],
       [kind |-> 9, payload |-> [of |-> 0, items |-> << >>]],
       [kind |-> 9, payload |-> [of |-> 8, items |-> <<Tag(8, << >>, <<82>>)>>]],
       [kind |-> 9, payload |->
           [of |-> 10, items |-> <<Tag(10, << >>, <<Tag(1, <<110>>, 1)>>)>>]],
       [kind |-> 10, payload |-> << >>],
       [kind |-> 10, payload |-> <<Tag(8, <<105, 100>>, <<88>>)>>],
       [kind |-> 11, payload |-> <<300>>],
       [kind |-> 12, payload |-> <<-300, 2>>] >>

\* the name of the i-th member of the outer compound: a, b, ...
MemberName(i) == <<96 + i>>

\* the outer compound whose i-th member has the payload numbered choice[i]
Tree(choice) ==
    Tag(10, << >>, [i \in DOMAIN choice |->
                      Tag(Payloads[choice[i]].kind, MemberName(i),
                          Payloads[choice[i]].payload)])

\* the outer compounds of up to MaxMembers members
Trees == UNION { [1..n -> DOMAIN Payloads] : n \in 0..MaxMembers }

\* the enchantments an item document can carry, in the order they are written
Enchantments ==
    <<Tag(3, text("sharpness"), 5), Tag(3, text("ultimate_wise"), 1),
      Tag(3, text("ultimate_bank"), 2)>>

\* what an item document can hold: the api id ("" for none), the number of
\* enchantments (0 for no enchantments tag), whether it has a runes tag and
\* a Count, where its display compound is, and its Name and Lore
Documents ==
    [id : {"", "ENCHANTED_BOOK", "RUNE", "PET", "CAKE_SOUL", "STARRED_X", "X"},
     enchantments : 0..MaxEnchants,
     runes : BOOLEAN,
     count : BOOLEAN,
     display : {"absent", "tag", "item"},
     name : BOOLEAN,
     lore : {"absent", "empty", "blank", "rare"}]

\* the members a compound has, given which of them are present
Present(members, which) ==
    SelectSeq([i \in DOMAIN members |->
                  IF which[i] THEN members[i] ELSE NoneType],
              LAMBDA m : m # NoneType)

\* a field of a document description, or what it is when left out
Has(d, field, default) == IF field \in DOMAIN d THEN d[field] ELSE default

\* the attributes of ExtraAttributes read by one extractor each
Attributes ==
    <<Tag(8, text("modifier"), text("withered")),
      Tag(3, text("rarity_upgrades"), 1),
      Tag(3, text("hot_potato_count"), 10),
      Tag(3, text("dungeon_item_level"), 5),
      Tag(8, text("petInfo"), <<123, 34>> \o text("type") \o <<34, 58, 34>>
                                  \o text("LION") \o <<34, 125>>)>>

\* enchanted books: any run of the enchantments, none to MaxEnchants of them
Books ==
    [id : {"ENCHANTED_BOOK"}, first : DOMAIN Enchantments,
     enchantments : 0..MaxEnchants, runes : {FALSE}, count : {TRUE},
     display : {"tag"}, name : {TRUE}, lore : {"rare"}]

\* runes: the name shown, with or without a reforge, and the lore
Runes ==
    [id : {"RUNE"}, enchantments : {0}, runes : {TRUE}, count : {TRUE},
     display : {"tag"}, name : {TRUE}, shown : {"book", "rune", "word"},
     attributes : {{}, {1}},
     lore : {"absent", "rare", "cosmetic", "very", "odd"}]

\* items of the general case and pets: which attributes they carry
Attributed ==
    [id : {"X", "STARRED_X", "STARRED_STARRED_X", "PET"},
     enchantments : {0, 1}, runes : BOOLEAN, count : {TRUE},
     display : {"tag"}, name : {TRUE}, attributes : SUBSET DOMAIN Attributes,
     lore : {"cosmetic", "very"}]

\* the tag tree of an item document
Document(d) ==
    LET styled(chars) == Tag(8, << >>, <<SectionSign>> \o chars)
        lore == Tag(9, text("Lore"),
                    [of |-> 8,
                     items |-> CASE d.lore = "empty" -> << >>
                                 [] d.lore = "blank" -> <<Tag(8, << >>, << >>)>>
                                 [] d.lore = "cosmetic" ->
                                        <<styled(text("5RARE COSMETIC")),
                                          styled(text("8Footer"))>>
                                 [] d.lore = "very" ->
                                        <<styled(text("cVERY SPECIAL"))>>
                                 [] d.lore = "odd" -> <<styled(text("fShiny"))>>
                                 [] OTHER -> <<styled(text("fRARE"))>>])
        shown == CASE Has(d, "shown", "book") = "rune" ->
                          text("5") \o <<BlackDiamond>>
                              \o text(" Blood Rune III")
                   [] Has(d, "shown", "book") = "word" -> text("5Blood")
                   [] OTHER -> text("rEnchanted Book")
        display == Tag(10, text("display"),
                       Present(<<Tag(8, text("Name"), <<SectionSign>> \o shown),
                                 lore>>,
                               <<d.name, d.lore # "absent">>))
        first == Has(d, "first", 1)
        attributes == Has(d, "attributes", {})
        extra_attrs ==
            Tag(10, text("ExtraAttributes"),
                Present(<<Tag(8, text("id"), text(d.id)),
                          Tag(10, text("enchantments"),
                              [i \in 1..d.enchantments |->
                                  Enchantments[((first + i - 2)
                                      % Len(Enchantments)) + 1]]),
                          Tag(10, text("runes"), <<Tag(3, text("BLOOD"), 3)>>)>>
                            \o Attributes,
                        <<d.id # "", d.enchantments > 0, d.runes>>
                            \o [i \in DOMAIN Attributes |-> i \in attributes]))
        item == Tag(10, << >>,
                    Present(<<Tag(1, text("Count"), 1),
                              Tag(10, text("tag"),
                                  Present(<<extra_attrs, display>>,
                                          <<TRUE, d.display = "tag">>)),
                              display>>,
                            <<d.count, TRUE, d.display = "item">>))
    IN Tag(10, << >>, <<Tag(9, text("i"), [of |-> 10, items |-> <<item>>])>>)

\* GenericItem.__init__: nbt = nbtparse.deserialize(b64)
Deserialize ==
    /\ nbt_pc = "deserialize"
    /\ nbt' = deserialize(nbt_b64)
    /\ nbt_pc' = IF nbt'.exc # None THEN "raised" ELSE "extract"
    /\ UNCHANGED <<clock, nbt_b64, nbt_source, nbt_item, notNbt>>

\* GenericItem.__init__: the attributes, set from the extractors
Extract ==
    /\ nbt_pc = "extract"
    /\ nbt_item' = GenericItem(nbt.tag)
    /\ nbt_pc' = IF nbt_item'.exc # None THEN "raised" ELSE "done"
    /\ UNCHANGED <<clock, nbt_b64, nbt_source, nbt, notNbt>>

InitNbt ==
    /\ clock = 0
    /\ limit = 1
    /\ LimiterIdle
    /\ feed_pages = 1
    /\ AcquireIdle
    /\ config = CHOOSE c \in Configs : TRUE
    /\ HouseIdle
    /\ BazaarIdle
    /\ DbIdle
    /\ PollIdle
    /\ nbt_pc = "deserialize"
    /\ \/ /\ nbt_b64 \in RawInputs
          /\ nbt_source = NoneType
       \/ \E choice \in Trees :
             /\ nbt_b64 = B64(TRUE, serialize(Tree(choice)))
             /\ nbt_source = Tree(choice)
       \/ \E d \in Documents :
             /\ nbt_b64 = B64(TRUE, serialize(Document(d)))
             /\ nbt_source = Document(d)
    /\ nbt = NoneType
    /\ nbt_item = NoneType

NextNbt ==
    \/ Deserialize
    \/ Extract

SpecNbt == InitNbt /\ [][NextNbt]_vars

\* the items GenericItem is built from: the documents above, the books, the
\* runes and the items that carry attributes
InitItems ==
    /\ clock = 0
    /\ limit = 1
    /\ LimiterIdle
    /\ feed_pages = 1
    /\ AcquireIdle
    /\ config = CHOOSE c \in Configs : TRUE
    /\ HouseIdle
    /\ BazaarIdle
    /\ DbIdle
    /\ PollIdle
    /\ nbt_pc = "deserialize"
    /\ \E d \in Books \cup Runes \cup Attributed \cup Documents :
          /\ nbt_b64 = B64(TRUE, serialize(Document(d)))
          /\ nbt_source = Document(d)
    /\ nbt = NoneType
    /\ nbt_item = NoneType

SpecItems == InitItems /\ [][NextNbt]_vars

(***************************************************************************)
(* database: the calls behind the db_write wrapper                         *)
(***************************************************************************)
\* what the body of a wrapped function did: the statements it executed on
\* _conn, and the exception that ended it, if any
Body(exc, executed) == [exc |-> exc, executed |-> executed]

\* db_write: wrapper(*args, **kwargs)
db_write(write, func) ==
    IF ~write
    THEN [exc |-> None, executed |-> 0, commits |-> 0]
    ELSE [exc |-> func.exc, executed |-> func.executed,
          commits |-> IF func.exc = None THEN 1 ELSE 0]

\* an AuctionHouse instance: its lbin_buffer and active_auctions are empty,
\* or hold one key with two samples and one listing
House(buffered, listed) ==
    [class |-> "AuctionHouse",
     lbin_buffer |-> IF buffered
                     THEN [key \in {<<"ASPECT", "RARE">>} |-> <<20, 30>>]
                     ELSE << >>,
     active_auctions |->
         IF listed
         THEN <<ActiveAuction([uuid |-> "u1", bin |-> TRUE, start |-> 0,
                               highest_bid_amount |-> 20, starting_bid |-> 20,
                               item_bytes |-> "A"]).value>>
         ELSE << >>]

\* the dashboards of the bot: a message id and the items it lists
Dashboards ==
    [message_id : {1, 2}, items : {<< >>, <<<<"ASPECT", "RARE">>>>}]

\* the record of a call through the wrapper
Called(func, outcome) ==
    [call |-> db_last.call + 1, func |-> func, exc |-> outcome.exc,
     executed |-> outcome.executed, commits |-> outcome.commits]

\* database.save_lbin_history(ah)
SaveLbinHistory ==
    /\ db_last.call < MaxDbCalls
    /\ \E buffered, listed \in BOOLEAN :
          LET ah == House(buffered, listed)
              saved == save_lbin_history(ah, config.WRITE_TO_DATABASE, clock,
                                         lbin_history)
          IN /\ lbin_history' = saved.value
             /\ db_last' = Called("save_lbin_history",
                               db_write(config.WRITE_TO_DATABASE,
                                   Body(None, Cardinality(DOMAIN ah.lbin_buffer))))
    /\ UNCHANGED <<clock, limiterVars, acquireVars, nbtVars, config, phase,
                   crashed, aa_handlers, active_auctions, aa_last_update,
                   aa_cache_count, lbin_buffer, active_occurrences,
                   activeLocals, activeHistory, endedVars, bazaarVars,
                   dashboard, pollVars>>

\* database.save_avg_sale_history(ah): the body reads ah.sale_buffer, which
\* no AuctionHouse has
SaveAvgSaleHistory ==
    /\ db_last.call < MaxDbCalls
    /\ db_last' = Called("save_avg_sale_history",
                         db_write(config.WRITE_TO_DATABASE,
                                  Body("AttributeError", 0)))
    /\ UNCHANGED <<clock, notDb, dashboard>>

\* database.save_item_info(ah): an insert and an update for every listing
\* (the table item_info is read by nothing modelled here)
SaveItemInfo ==
    /\ db_last.call < MaxDbCalls
    /\ \E buffered, listed \in BOOLEAN :
          db_last' = Called("save_item_info",
                         db_write(config.WRITE_TO_DATABASE,
                             Body(None, 2 * Len(House(buffered, listed)
                                                    .active_auctions))))
    /\ UNCHANGED <<clock, notDb, dashboard>>

\* database.save_dashboard(dashboard): message_id is the primary key
SaveDashboard ==
    /\ db_last.call < MaxDbCalls
    /\ \E d \in Dashboards :
          LET func == IF d.message_id \in dashboard
                      THEN Body("IntegrityError", 0)
                      ELSE Body(None, 1 + Len(d.items))
          IN /\ db_last' = Called("save_dashboard",
                                  db_write(config.WRITE_TO_DATABASE, func))
             /\ dashboard' = IF config.WRITE_TO_DATABASE
                             THEN dashboard \cup {d.message_id}
                             ELSE dashboard
    /\ UNCHANGED <<clock, notDb>>

\* database.delete_dashboard(message_id)
DeleteDashboard ==
    /\ db_last.call < MaxDbCalls
    /\ \E message_id \in {1, 2} :
          /\ db_last' = Called("delete_dashboard",
                               db_write(config.WRITE_TO_DATABASE, Body(None, 1)))
          /\ dashboard' = IF config.WRITE_TO_DATABASE
                          THEN dashboard \ {message_id}
                          ELSE dashboard
    /\ UNCHANGED <<clock, notDb>>

InitDatabase ==
    /\ clock = 0
    /\ limit = 1
    /\ LimiterIdle
    /\ feed_pages = 1
    /\ AcquireIdle
    /\ \E write \in BOOLEAN :
          config = [WRITE_TO_DATABASE |-> write, AA_CLEAR_THRESHOLD |-> 1,
                    EA_CLEAR_THRESHOLD |-> 1, AA_BATCH_SIZE |-> 1]
    /\ HouseIdle
    /\ BazaarIdle
    /\ NbtIdle
    /\ DbIdle
    /\ PollIdle

NextDatabase ==
    \/ SaveLbinHistory
    \/ SaveAvgSaleHistory
    \/ SaveItemInfo
    \/ SaveDashboard
    \/ DeleteDashboard

SpecDatabase == InitDatabase /\ [][NextDatabase]_vars

(***************************************************************************)
(* Claims                                                                  *)
(***************************************************************************)

\* a sequence of times in non-decreasing order
IsSorted(s) == \A i \in 1..(Len(s) - 1) : s[i] <= s[i + 1]

\* C1: no 60-second sliding window [t, t + 60 s) contains more than `limit`
\* of the scheduled timestamps appended to key_calls.  A window holding the
\* most timestamps can be moved to start at one of them.
C1_WindowBound ==
    \A i \in 1..Len(appended) :
        Cardinality({ j \in 1..Len(appended) :
                        /\ appended[i] <= appended[j]
                        /\ appended[j] < appended[i] + Minute }) <= limit

\* both branches of the schedule were taken, entries were pruned, and more
\* calls than the limit were scheduled
C1_Witness ==
    /\ Len(appended) > limit + 1
    /\ Len(key_calls) < Len(appended)
    /\ \E c \in Callers : w_pc[c] = "sleeping" /\ w_sched[c] > w_now[c]
    /\ \E i \in 1..Len(appended) : appended[i] > Minute /\ appended[i] % Minute # 0

\* C10: concurrent invocations of the wrapper never interleave between the
\* clock read and the append: at most one invocation is inside that stretch,
\* and it is the one holding the event loop; hence, under every interleaving
\* of the callers, key_calls stays ordered, every invocation that reached its
\* sleep has its own scheduled time recorded, and any two scheduled times
\* `limit` positions apart are at least a minute apart.
C10_ConcurrentSafe ==
    /\ \A c \in Callers : w_pc[c] \in {"entered", "pruned"} => running = c
    /\ IsSorted(key_calls)
    /\ IsSorted(appended)
    /\ \A c \in Callers :
           w_pc[c] = "sleeping" =>
               \E i \in 1..Len(appended) : appended[i] = w_sched[c]
    /\ \A i \in 1..Len(appended) :
           i + limit <= Len(appended) =>
               appended[i + limit] - appended[i] >= Minute

\* two invocations are asleep at once, scheduled at different times, while a
\* third invocation is inside the wrapper
C10_Witness ==
    /\ \E c, d \in Callers :
           /\ c # d
           /\ w_pc[c] = "sleeping"
           /\ w_pc[d] \in {"entered", "pruned"}
           /\ w_now[d] < w_sched[c]
    /\ Len(appended) >= limit + 1

\* C2: nothing of an attempt in which a page reported a lastUpdated other
\* than the probed T is returned: the results collected so far in an attempt
\* all carry the attempt's T, an aborted attempt keeps no results, and a
\* returned pair (T, listings) holds one listing list per requested page of
\* the final attempt, every listing of it reported at exactly T.
C2_SnapshotAtomic ==
    /\ g_pc = "fetch" =>
           \A i \in 1..Len(g_results) :
               \A k \in 1..Len(g_results[i].auctions) :
                   FromTimestamp(g_results[i].auctions[k].t) = g_expected
    /\ g_pc \in {"backoff", "probe", "wait_late", "wait_early", "raised"} =>
           /\ g_results = << >>
           /\ g_ret.listings = << >>
    /\ g_pc = "returned" =>
           /\ \A k \in 1..Len(g_ret.listings) :
                  FromTimestamp(g_ret.listings[k].t) = g_ret.T
           /\ Len(g_ret.listings) = Len(g_pages)
           /\ \A k \in 1..Len(g_pages) : g_ret.listings[k].page = g_pages[k]

\* a snapshot of several pages is returned by an attempt that follows an
\* attempt aborted by a page of a later update
C2_Witness ==
    /\ g_pc = "returned"
    /\ g_attempts >= 2
    /\ Len(g_ret.listings) >= 2
    /\ g_ret.T > 0

\* C3: no exception leaves get_active_auctions: a non-success status, a
\* malformed body or a timestamp mismatch only restarts the attempt.
C3_NothingEscapes == g_pc # "raised" /\ g_exc = None

\* C4: a call without page arguments returns the listings of every page
\* 0..totalPages-1, in page order, totalPages being the page count of the
\* probe that established the returned T.
C4_AllPagesReturned ==
    g_pc = "returned" =>
        /\ Len(g_ret.listings) = g_page_count
        /\ \A k \in 1..Len(g_ret.listings) :
               /\ g_ret.listings[k].page = k - 1
               /\ FromTimestamp(g_ret.listings[k].t) = g_ret.T


\* C11: the retries have no maximum count: get_active_auctions never fails
\* because of the number of aborted attempts that preceded, and an attempt
\* whose pages all arrived with the probed timestamp can return them.
C11_RetriesUnbounded ==
    /\ g_exc # "RecursionError"
    /\ (g_pc = "fetch" /\ \A i \in 1..Len(g_pages) : g_results[i].done)
          => ENABLED Return

\* C12: the page requests of an attempt are issued at a time inside
\* [T + CACHE_MIN_DELAY, T + CACHE_MAX_DELAY], T being the timestamp the
\* pages are verified against.
C12_FetchInsideWindow ==
    g_pc = "fetch" =>
        /\ g_issued >= g_expected + Seconds(CACHE_MIN_DELAY)
        /\ g_issued <= g_expected + Seconds(CACHE_MAX_DELAY)

\* C5: when cache_active_auctions, cache_ended_auctions or cache_products
\* obtains a timestamp equal to the last accepted one, the call ends there:
\* the cached set, the last-update timestamp, the cache counter and the
\* buffers stay as they were and no handler is called or awaited.
C5_RepeatDiscarded ==
    [][ /\ (/\ aa_pc = "acquiring"
            /\ aa_pc' \notin {"acquiring", "raised"}
            /\ aa_T' = aa_last_update)
           => /\ aa_pc' = "cooldown"
              /\ UNCHANGED <<active_auctions, aa_last_update, aa_cache_count,
                             lbin_buffer, active_occurrences, aa_called,
                             aa_awaiting, buffer_calls, accepted>>
        /\ (/\ ea_pc = "acquiring"
            /\ ea_pc' \notin {"acquiring", "raised"}
            /\ ea_T' = ea_last_update)
           => /\ ea_pc' = "cooldown"
              /\ UNCHANGED <<ended_auctions, ea_last_update, ea_cache_count,
                             sold_buffer, ea_called, ea_awaiting>>
        /\ (/\ bz_pc = "acquiring"
            /\ bz_pc' \notin {"acquiring", "raised"}
            /\ bz_T' = bz_last_update)
           => /\ bz_pc' = "cooldown"
              /\ UNCHANGED <<products, bz_last_update, bz_called,
                             bz_awaiting>> ]_vars

\* the second call of cache_active_auctions obtained the timestamp the
\* first one accepted, and returned
C5_Witness ==
    /\ aa_pc = "cooldown"
    /\ aa_rounds = 2
    /\ accepted = 1
    /\ aa_T = aa_last_update
    /\ Len(active_auctions) > 0
    /\ aa_called = aa_handlers

\* update_active_buffers is registered once, so that it runs on every
\* accepted snapshot
BufferedOnce ==
    Cardinality({ i \in DOMAIN aa_handlers :
                    aa_handlers[i] = "update_active_buffers" }) = 1

\* the number of samples held by a buffer, over all its keys
RECURSIVE SampleCount(_)
SampleCount(buffer) ==
    IF DOMAIN buffer = {} THEN 0
    ELSE LET k == CHOOSE key \in DOMAIN buffer : TRUE
         IN Len(buffer[k])
            + SampleCount([j \in DOMAIN buffer \ {k} |-> buffer[j]])

\* C6: with update_active_buffers run on every accepted snapshot and
\* threshold N, there has been one flush for every full group of N buffer
\* updates; the flush of the N-th update carries as many samples as were
\* appended since the last reset, and right after it lbin_buffer is empty and
\* aa_cache_count is 0.
C6_FlushEveryThreshold ==
    LET N == config.AA_CLEAR_THRESHOLD IN
      (BufferedOnce /\ buffer_calls > 0) =>
         /\ flushes = buffer_calls \div N
         /\ (buffer_calls = accepted /\ buffer_calls % N = 0) =>
               /\ SampleCount(last_flush.arg.items) = last_flush.observed
               /\ lbin_buffer = << >>
               /\ aa_cache_count = 0

\* C7: once the flush has been emitted with writing enabled, the table
\* holds for every key of the pre-reset buffer the mean of its samples and
\* their number, and only then is the buffer cleared and the counter reset.
C7_FlushCarriesMeanAndCount ==
    (config.WRITE_TO_DATABASE /\ flushes > 0) =>
        /\ crashed = None
        /\ \A k \in DOMAIN last_flush.arg.items :
             \E row \in lbin_history :
                /\ row[2] = k[1]
                /\ row[3] = k[2]
                /\ row[4] = Mean(last_flush.arg.items[k])
                /\ Len(row) = 5
                /\ row[5] = Len(last_flush.arg.items[k])
        /\ lbin_buffer = << >>
        /\ aa_cache_count = 0

\* C8: a listing whose item does not decode is dropped alone; no exception
\* leaves cache_active_auctions because of it, and the snapshot that held it
\* is accepted.
C8_BadListingDropped ==
    /\ crashed # "ItemError"
    /\ (aa_pc = "decoding" /\ aa_batch_start >= Len(aa_res))
          => Len(aa_parsed) =
               Cardinality({ i \in DOMAIN aa_res :
                               aa_res[i].item_bytes \in DOMAIN Items })

\* C9: start_aa_caching begins a get_active_auctions call only when every
\* handler of the snapshot accepted last has run to its end, none is still
\* awaited, and the snapshots are accepted in the order of their timestamps.
C9_NoOverlap ==
    /\ aa_pc = "acquiring" =>
          /\ aa_awaiting = 0
          /\ accepted > 0 => aa_called = aa_handlers
    /\ aa_pc \in {"decoding", "notifying"} => aa_T >= aa_last_update

\* a new call has begun after a snapshot went through a plain handler and
\* an awaited one
C9_Witness ==
    /\ aa_pc = "acquiring"
    /\ accepted = 1
    /\ aa_handlers = <<"update_active_buffers", "refresh_dashboards">>
    /\ aa_called = aa_handlers
    /\ buffer_calls = 1

\* the listings of the cached snapshot that count for the lowest BIN of a
\* key: buy-now, and listed for at least one minute at the snapshot's time
Qualifying(key) ==
    { i \in DOMAIN active_auctions :
        /\ KeyOf(active_auctions[i]) = key
        /\ active_auctions[i].is_bin
        /\ aa_last_update - start_time(active_auctions[i]) >= Minute }

\* the samples a buffer holds for a key
SamplesOf(buffer, key) == IF key \in DOMAIN buffer THEN buffer[key] ELSE << >>

\* C13: a run of update_active_buffers appends to every key exactly one
\* sample, the least unit price among the snapshot's qualifying listings of
\* the key, and appends nothing to a key without a qualifying listing (the
\* buffer is looked at before the reset when the run also flushes it).
C13_OneLowestSamplePerKey ==
    [][ buffer_calls' = buffer_calls + 1 =>
          LET after == IF flushes' # flushes THEN last_flush'.arg.items
                       ELSE lbin_buffer'
              keys == DOMAIN lbin_buffer \cup DOMAIN after
                      \cup { KeyOf(active_auctions[i]) :
                                i \in DOMAIN active_auctions }
          IN \A key \in keys :
               IF Qualifying(key) = {}
               THEN SamplesOf(after, key) = SamplesOf(lbin_buffer, key)
               ELSE \E i \in Qualifying(key) :
                      /\ \A j \in Qualifying(key) :
                            unit_price(active_auctions[i])
                              <= unit_price(active_auctions[j])
                      /\ SamplesOf(after, key) =
                            Append(SamplesOf(lbin_buffer, key),
                                   unit_price(active_auctions[i])) ]_vars

\* the buffer was updated from a snapshot holding two qualifying listings
\* of one key, the cheaper one second, after an earlier snapshot's sample
C13_Witness ==
    /\ buffer_calls = 2
    /\ accepted = 2
    /\ Len(active_auctions) = 2
    /\ \E key \in DOMAIN lbin_buffer :
         /\ Cardinality(Qualifying(key)) = 2
         /\ Len(lbin_buffer[key]) = 2
         /\ unit_price(active_auctions[2]) < unit_price(active_auctions[1])
         /\ lbin_buffer[key][2] = unit_price(active_auctions[2])

\* C14: when ea_cache_count reaches the threshold the reduced sold_buffer
\* is handed to persistence before it is cleared: with writing enabled,
\* once the buffer has been reset the table avg_sale_history holds a row
\* with the mean for every key the buffer held, and the counter is 0.
C14_SoldFlushedBeforeReset ==
    (config.WRITE_TO_DATABASE /\ sold_flushed.resets > 0) =>
        \A key \in DOMAIN sold_flushed.items :
           \E row \in avg_sale_history :
              /\ row[2] = key[1]
              /\ row[3] = key[2]
              /\ row[4] = Mean(sold_flushed.items[key])

\* deserialize has returned or raised
Decoded == nbt_pc \notin {"idle", "deserialize"}

\* C15: decoding a compound stops at its terminator type byte 0 and
\* consumes no byte after it, and an input that ends before the terminator
\* raises instead of giving a compound: when deserialize returns, no read
\* came back short and the last byte consumed is the 0 that closes the
\* outer compound.
C15_CompoundNeedsTerminator ==
    (Decoded /\ nbt.exc = None) =>
        /\ ~nbt.f.short
        /\ nbt_b64.bytes[nbt.f.pos] = 0

\* C16: a tag-type byte of a compound, or the element type of a non-empty
\* list, outside 1..12 makes decoding fail and is never dispatched to a
\* parser, bytes of 0x80 and above included: PARSERS is never indexed with
\* a negative number that selects a parser.
C16_UnknownTypeNotDispatched ==
    Decoded => ~nbt.f.wrapped

\* C19: for a tag tree of the twelve supported kinds, decoding the encoding
\* of the tree gives the tree back.
C19_RoundTrip ==
    (Decoded /\ nbt_source # NoneType) =>
        /\ nbt.exc = None
        /\ nbt.tag = Objects(nbt_source)

\* the item was built from an encoded tree, and its extractors have run
Extracted == nbt_item # NoneType /\ nbt_source # NoneType

\* the tree the item was built from is an item document: it has the list i
IsDocument ==
    /\ nbt_source.payload # << >>
    /\ nbt_source.payload[1].name = text("i")

\* C17: item extraction never raises on a decoded tree whose expected
\* sub-tags are missing or empty (no id, no runes on a RUNE, no display or
\* Lore, an empty Lore, an empty last lore line): the constructor of
\* GenericItem sets every attribute.
C17_ExtractionNeverRaises ==
    (Extracted /\ IsDocument) => nbt_item.exc = None

\* the tree {i:[{Count:1, tag:{ExtraAttributes:{id:"ENCHANTED_BOOK",
\* enchantments:{"sharpness":5}}}, display:{Name:..., Lore:["§fRARE"]}}]}
SharpnessBook ==
    Document([id |-> "ENCHANTED_BOOK", enchantments |-> 1, runes |-> FALSE,
              count |-> TRUE, display |-> "item", name |-> TRUE,
              lore |-> "rare"])

\* C18: from the enchanted book with one enchantment sharpness 5 and display
\* next to tag, extraction yields item_id SHARPNESS_5_BOOK, rarity RARE and
\* the enchantments {("sharpness", 5)}.
C18_SharpnessBook ==
    (Extracted /\ nbt_source = SharpnessBook) =>
        /\ nbt_item.exc = None
        /\ nbt_item.value.item_id = K("SHARPNESS_5_BOOK")
        /\ nbt_item.value.rarity = K("RARE")
        /\ nbt_item.value.enchants
              = List(<<Tuple(<<K("sharpness"), PyInt(5)>>)>>)

\* C20: with WRITE_TO_DATABASE false every call through db_write returns
\* without executing a statement, without committing and without raising;
\* with writing enabled it runs the operation and then commits exactly once
\* (a statement the database rejects aside).
C20_WriteGuard ==
    db_last.call > 0 =>
        IF ~config.WRITE_TO_DATABASE
        THEN db_last.exc = None /\ db_last.executed = 0 /\ db_last.commits = 0
        ELSE \/ db_last.exc = None /\ db_last.commits = 1
             \/ db_last.exc = "IntegrityError"

\* C21: an active listing that has received no bid (highest_bid_amount is
\* 0 in the feed) has a price equal to its starting_price.
C21_PriceBeforeFirstBid ==
    \A i \in 1..Len(aa_parsed) :
        aa_res[i].highest_bid_amount = 0 =>
            aa_parsed[i].price = aa_parsed[i].starting_price

\* C22: after an aborted attempt get_active_auctions waits the 30 seconds
\* of the backoff and restarts from the probe: the backoff ends 30 seconds
\* after the abort, the next attempt begins no earlier, and its pages are
\* requested only after it has probed the timestamp they are checked
\* against.
C22_BackoffThenProbe ==
    /\ g_pc = "backoff" => g_wake = g_log.aborted + Seconds(30)
    /\ (g_attempts >= 2 /\ g_pc # "backoff") =>
          /\ clock >= g_log.aborted + Seconds(30)
          /\ g_pc \in {"wait_late", "wait_early", "fetch", "returned"}
                => g_log.probed = g_attempts
          /\ g_pc \in {"fetch", "returned"}
                => g_issued >= g_log.aborted + Seconds(30)

\* the pages of a second attempt are being fetched; the attempt had to
\* wait for its window after its probe
C22_Witness ==
    /\ g_pc = "fetch"
    /\ g_attempts = 2
    /\ g_issued > g_log.aborted + Seconds(30)
    /\ \E i \in 1..Len(g_results) : g_results[i].done

\* C23: a probe that finds the time past T + CACHE_MAX_DELAY moves T on by
\* whole minutes until the window contains or follows the current time and
\* suspends until that window opens; the wait is never negative.
C23_LateProbeWaits ==
    [][ (g_pc = "probe" /\ g_pc' = "wait_late") =>
           /\ g_wake' >= clock
           /\ (g_wake' - g_expected' - Seconds(CACHE_MIN_DELAY)) % Minute = 0
      ]_vars

\* C24: when the probed timestamp equals the timestamp of the snapshot
\* accepted last, no page of the listings endpoint is fetched: the
\* comparison comes before the page fetches.
C24_RepeatSkipsFetch ==
    (g_pc = "fetch" /\ aa_rounds > 0 /\ aa_last_update # Never) =>
        g_expected # aa_last_update

\* C25: the scheduled time a call computes is at or after the clock value
\* the call read (the wait is not negative) and at or after every timestamp
\* already in key_calls, so key_calls stays in non-decreasing order.
C25_ScheduleMonotone ==
    [][ \A c \in Callers :
          (w_pc[c] = "pruned" /\ w_pc'[c] = "sleeping") =>
              /\ w_sched'[c] >= w_now[c]
              /\ \A i \in 1..Len(key_calls) : key_calls[i] <= w_sched'[c]
              /\ key_calls' = Append(key_calls, w_sched'[c])
              /\ IsSorted(key_calls') ]_vars

\* a call was scheduled a full minute after an earlier one while a third
\* timestamp lies between them, and waits
C25_Witness ==
    /\ Len(key_calls) >= 3
    /\ key_calls[1] < key_calls[2]
    /\ key_calls[2] < key_calls[Len(key_calls)]
    /\ \E c \in Callers :
          /\ w_pc[c] = "sleeping"
          /\ w_sched[c] = key_calls[Len(key_calls)]
          /\ w_sched[c] > w_now[c]

\* C26: after every schedule operation key_calls holds at most `limit`
\* entries, all of them within the 60 seconds that end at the current time.
C26_WindowedAndBounded ==
    [][ \A c \in Callers :
          (w_pc[c] = "pruned" /\ w_pc'[c] = "sleeping") =>
              /\ Len(key_calls') <= limit
              /\ \A i \in 1..Len(key_calls') :
                    /\ key_calls'[i] <= clock'
                    /\ clock' - key_calls'[i] <= Minute ]_vars

\* C27: decoding raises whenever fewer bytes remain than a field declares
\* (a scalar, the length prefix of a string or its payload, the count of an
\* array or list or its elements): once a read has come back short,
\* deserialize does not return a value.
C27_ShortReadFails ==
    (Decoded /\ nbt.f.short) => nbt.exc # None

\* the handlers invoked on the snapshot accepted last: those that returned,
\* and the one that raised, if one did
Invoked ==
    Len(aa_called) + (IF crashed = "AttributeError" THEN 1 ELSE 0)

\* C28: on every accepted snapshot each registered handler is invoked
\* exactly once, one after the other in registration order, and only after
\* the cached snapshot has been updated: the handlers that have run are the
\* first registered ones, in order, they run with aa_last_update already
\* the accepted timestamp, and when cache_active_auctions is over every
\* registered handler has been invoked.
C28_HandlersInOrder ==
    /\ aa_pc = "notifying" =>
          /\ aa_called = SubSeq(aa_handlers, 1, aa_next - 1)
          /\ aa_last_update = aa_T
    /\ (accepted > 0 /\ aa_pc \in {"cooldown", "acquiring", "raised"}) =>
          Invoked = Len(aa_handlers)

\* every cached listing was built from a record of the update aa_last_update
FromLastUpdate(auctions, last_update) ==
    \A i \in 1..Len(auctions) :
        \E d \in ActiveRecords(last_update \div 1000) :
            /\ ActiveAuction(d).exc = None
            /\ ActiveAuction(d).value = auctions[i]

\* C29: active_auctions and aa_last_update always belong to one accepted
\* snapshot.  The cached listings come from the update aa_last_update; they,
\* the timestamp and the counter change only in the one step that ends the
\* decoding, all three together, so that while the call waits for its pages
\* or yields between batches the previous snapshot is there in full.
C29_SnapshotReplacedTogether ==
    [][ /\ FromLastUpdate(active_auctions', aa_last_update')
        /\ (\/ active_auctions' # active_auctions
            \/ aa_last_update' # aa_last_update
            \/ accepted' # accepted)
           => /\ aa_pc = "decoding"
              /\ aa_pc' = "notifying"
              /\ aa_last_update' = aa_T
              /\ aa_cache_count' = aa_cache_count + 1
              /\ accepted' = accepted + 1
              /\ active_auctions' =
                    SelectSeq(aa_parsed, LAMBDA auction : auction.item.ascii)
      ]_vars

\* the second snapshot is being decoded, a batch of it is done, and the
\* first snapshot is still the cached one
C29_Witness ==
    /\ aa_pc = "decoding"
    /\ accepted = 1
    /\ Len(aa_parsed) > 0
    /\ Len(active_auctions) = 2
    /\ aa_T = NextUpdate(aa_last_update)
    /\ FromLastUpdate(active_auctions, aa_last_update)
    /\ ~FromLastUpdate(aa_parsed, aa_last_update)

\* C30: with update_active_buffers run once per accepted snapshot and
\* threshold N, aa_cache_count stays within 0..N and is below N after each
\* buffer update, and no key of lbin_buffer holds more samples than
\* snapshots were accepted since the last reset (aa_cache_count counts
\* them).
C30_CounterAndSamples ==
    LET N == config.AA_CLEAR_THRESHOLD IN
      BufferedOnce =>
         /\ aa_cache_count >= 0
         /\ aa_cache_count <= N
         /\ (buffer_calls > 0 /\ buffer_calls = accepted) => aa_cache_count < N
         /\ \A key \in DOMAIN lbin_buffer :
               Len(lbin_buffer[key]) <= aa_cache_count

\* the members of a compound of the encoded tree that have a given name
Named(members, name) == SelectSeq(members, LAMBDA m : m.name = text(name))

\* the item of the encoded document, and its ExtraAttributes
SourceItem == nbt_source.payload[1].payload.items[1].payload
SourceExtra ==
    Named(Named(SourceItem, "tag")[1].payload, "ExtraAttributes")[1].payload

\* the api id of the encoded document, none for a document without one
SourceId ==
    IF Named(SourceExtra, "id") = << >> THEN << >>
    ELSE Named(SourceExtra, "id")[1].payload

\* the enchantments of the encoded document
SourceEnchantments ==
    IF Named(SourceExtra, "enchantments") = << >> THEN << >>
    ELSE Named(SourceExtra, "enchantments")[1].payload

\* the identifiers of the item whose extraction has begun
Identified == Decoded /\ nbt_source # NoneType /\ IsDocument

\* C33: an ENCHANTED_BOOK with exactly one enchantment (e, l) has item_id
\* upper(x)_l_BOOK, x being e mapped through the enchant exceptions, and
\* base_name = display_name = the item_id in title case with spaces for
\* underscores; with no or with several enchantments the identifiers are
\* those of the general case and the item_id stays ENCHANTED_BOOK.
C33_BookIdentifiers ==
    (Identified /\ SourceId = text("ENCHANTED_BOOK")) =>
        LET ids == extract_identifiers(nbt.tag)
            e == SourceEnchantments[1]
            expected == upper(enchant_exception(e.name)) \o <<95>>
                            \o Decimal(e.payload) \o text("_BOOK")
            words == [i \in DOMAIN expected |->
                         IF expected[i] = 95 THEN 32
                         ELSE IF i > 1 /\ IsUpper(expected[i - 1])
                         THEN expected[i] + 32 ELSE expected[i]]
        IN IF Len(SourceEnchantments) = 1
           THEN /\ ids.exc = None
                /\ ids.value.item_id = Str(expected)
                /\ ids.value.base_name = Str(words)
                /\ ids.value.display_name = Str(words)
           ELSE /\ ids = GeneralIdentifiers(nbt.tag)
                /\ ids.exc = None => ids.value.item_id = K("ENCHANTED_BOOK")

\* the book of ultimate_wise 1 alone was identified
C33_Witness ==
    /\ Extracted /\ IsDocument /\ SourceId = text("ENCHANTED_BOOK")
    /\ Len(SourceEnchantments) = 1
    /\ nbt_item.exc = None
    /\ nbt_item.value.item_id = K("ULTIMATE_WISE_1_BOOK")
    /\ nbt_item.value.base_name = K("Ultimate Wise 1 Book")

\* the single entry of runes in the encoded document
SourceRune == Named(SourceExtra, "runes")[1].payload[1]

\* the encoded document is a RUNE with one entry under runes
IsRune ==
    /\ Identified /\ SourceId = text("RUNE")
    /\ Named(SourceExtra, "runes") # << >>
    /\ Len(Named(SourceExtra, "runes")[1].payload) = 1

\* C34: for a RUNE whose runes holds the single entry (r, l), extract_rune
\* returns (r, l); where the item has a display name, item_id is r_RUNE_l,
\* base_name is the generic base name with its trailing word replaced by l
\* (a name of one word has no word behind a space: it is kept, and l
\* follows it), and display_name is the generic display name.
C34_RuneIdentifiers ==
    IsRune =>
        LET ids == extract_identifiers(nbt.tag)
            named == extract_generic_display_name(nbt.tag).exc = None
            generic == extract_generic_base_name(nbt.tag).value.chars
            l == Decimal(SourceRune.payload)
            spaces == {i \in DOMAIN generic : generic[i] = 32}
            kept == IF spaces = {} THEN generic
                    ELSE SubSeq(generic, 1,
                                (CHOOSE i \in spaces :
                                    \A j \in spaces : j <= i) - 1)
        IN /\ extract_rune(nbt.tag)
                = Returned(Tuple(<<Str(SourceRune.name),
                                   PyInt(SourceRune.payload)>>))
           /\ named =>
                 /\ ids.exc = None
                 /\ ids.value.item_id
                       = Str(SourceRune.name \o text("_RUNE_") \o l)
                 /\ ids.value.base_name = Str(kept \o <<32>> \o l)
                 /\ ids.value.display_name
                       = extract_generic_display_name(nbt.tag).value

\* the rune BLOOD of level 3 named "Blood Rune III" behind its glyph
C34_Witness ==
    /\ IsRune /\ Extracted
    /\ nbt_item.exc = None
    /\ nbt_item.value.rune = Tuple(<<K("BLOOD"), PyInt(3)>>)
    /\ nbt_item.value.item_id = K("BLOOD_RUNE_3")
    /\ nbt_item.value.base_name = K("Blood Rune 3")
    /\ nbt_item.value.display_name
          = Str(<<BlackDiamond>> \o text(" Blood Rune III"))

\* the encoded document has an api id that the general case handles
IsGeneralCase ==
    /\ Identified
    /\ SourceId # << >>
    /\ SourceId \notin {text("RUNE"), text("PET"), text("CAKE_SOUL")}
    /\ ~(SourceId = text("ENCHANTED_BOOK") /\ Len(SourceEnchantments) = 1)

\* the api id of the encoded document begins with STARRED_
Starred ==
    /\ Len(SourceId) >= 8
    /\ SubSeq(SourceId, 1, 8) = text("STARRED_")

\* C35: for an api id handled by the general case, item_id is the api id
\* without one leading STARRED_ (the api id itself when it has none), and
\* is_fragged is true exactly when the api id starts with STARRED_; hence
\* item_id differs from the api id only for items reported as fragged.
C35_FragmentPrefix ==
    IsGeneralCase =>
        LET ids == extract_identifiers(nbt.tag)
            fragged == extract_is_fragged(nbt.tag)
        IN /\ fragged = Returned(Starred)
           /\ ids.exc = None =>
                 /\ ids.value.item_id
                       = Str(IF Starred
                             THEN SubSeq(SourceId, 9, Len(SourceId))
                             ELSE SourceId)
                 /\ ids.value.item_id # Str(SourceId) => fragged.value

\* an item whose api id is STARRED_STARRED_X was built: it keeps one prefix
C35_Witness ==
    /\ IsGeneralCase /\ Extracted
    /\ SourceId = text("STARRED_STARRED_X")
    /\ nbt_item.exc = None
    /\ nbt_item.value.item_id = K("STARRED_X")
    /\ nbt_item.value.is_fragged

\* the entries of ExtraAttributes the attribute extractors read
AttributeNames ==
    <<"enchantments", "runes", "rarity_upgrades", "hot_potato_count",
      "modifier", "dungeon_item_level", "petInfo">>

\* what the extractors return for a decoded tree, in the order of the
\* entries they read; the three pet extractors read petInfo
AttributeValues(tree) ==
    <<extract_enchants(tree), extract_rune(tree),
      extract_is_recombobulated(tree),
      extract_count(tree, "hot_potato_count"), extract_reforge(tree),
      extract_count(tree, "dungeon_item_level"),
      <<extract_pet_type(tree), extract_pet_exp(tree),
        extract_pet_candy_used(tree)>> >>

\* what they return for an item without the entry
AttributeDefaults ==
    <<Returned(List(<< >>)), Returned(NoneType), Returned(FALSE),
      Returned(PyInt(0)), Returned(NoneType), Returned(PyInt(0)),
      <<Returned(NoneType), Returned(PyInt(0)), Returned(PyInt(0))>> >>

\* the encoded document without one entry of its ExtraAttributes
WithoutAttribute(name) ==
    LET k == CHOOSE i \in DOMAIN SourceItem :
                 SourceItem[i].name = text("tag")
        inside == SourceItem[k].payload
        j == CHOOSE i \in DOMAIN inside :
                 inside[i].name = text("ExtraAttributes")
    IN [nbt_source EXCEPT
           !.payload[1].payload.items[1].payload[k].payload[j].payload =
               SelectSeq(@, LAMBDA m : m.name # text(name))]

\* C36: each attribute extractor returns its default when its entry of
\* ExtraAttributes is absent (enchantments empty, rune none, recombobulated
\* false, hot-potato count 0, reforge none, dungeon stars 0, and without
\* petInfo pet type none, pet experience 0, candy used 0), and taking one
\* entry away changes the value of no other extractor.
C36_IndependentLookups ==
    Identified =>
        LET values == AttributeValues(nbt.tag)
        IN \A a \in DOMAIN AttributeNames :
              IF Named(SourceExtra, AttributeNames[a]) = << >>
              THEN values[a] = AttributeDefaults[a]
              ELSE LET others ==
                           AttributeValues(
                               Objects(WithoutAttribute(AttributeNames[a])))
                   IN /\ others[a] = AttributeDefaults[a]
                      /\ \A b \in DOMAIN AttributeNames \ {a} :
                            others[b] = values[b]

\* an item with a reforge and hot potato books, and nothing else, was built
C36_Witness ==
    /\ Extracted /\ IsDocument
    /\ nbt_item.exc = None
    /\ nbt_item.value.reforge = K("withered")
    /\ nbt_item.value.hot_potato_count = PyInt(10)
    /\ nbt_item.value.dungeon_stars = PyInt(0)
    /\ nbt_item.value.is_recombobulated = FALSE
    /\ nbt_item.value.rune = NoneType
    /\ nbt_item.value.enchants = List(<< >>)
    /\ Named(SourceExtra, "petInfo") # << >>
    /\ extract_pet_type(nbt.tag) = Returned(K("LION"))
    /\ extract_pet_exp(nbt.tag) = Returned(PyInt(0))

\* the lore lines of the encoded document, each without its styling: the
\* Lore of the display compound inside tag, none when there is no such list
SourceLore ==
    LET inside == Named(SourceItem, "tag")[1].payload
        display == Named(inside, "display")
        lore == IF display = << >> THEN << >>
                ELSE Named(display[1].payload, "Lore")
    IN IF lore = << >> THEN << >>
       ELSE [i \in DOMAIN lore[1].payload.items |->
                without_nbt_style(lore[1].payload.items[i].payload)]

\* the rarity a lore line stands for
RarityWord(line) ==
    LET word == split(line)[1]
        rarity == IF word = text("VERY") THEN text("VERY_SPECIAL") ELSE word
    IN IF rarity \in RARITIES THEN rarity ELSE text("UNKNOWN")

\* C37: extract_rarity, whenever it returns, returns a known rarity or
\* UNKNOWN; for an item that has an api id it is UNKNOWN when the lore is
\* absent, else the first word of the unstyled rarity line, VERY standing
\* for VERY_SPECIAL, and UNKNOWN for a word that is no known rarity; the
\* rarity line is the last lore line, and for a RUNE a lore line ending in
\* COSMETIC when there is one.
C37_KnownRarityOrUnknown ==
    (Identified /\ extract_rarity(nbt.tag).exc = None) =>
        LET rarity == extract_rarity(nbt.tag).value
            cosmetic == {i \in DOMAIN SourceLore :
                            endswith(SourceLore[i], text("COSMETIC"))}
        IN /\ rarity.class = "str"
           /\ rarity.chars \in RARITIES \cup {text("UNKNOWN")}
           /\ IF SourceId = << >> \/ SourceLore = << >>
              THEN rarity = K("UNKNOWN")
              ELSE IF SourceId = text("RUNE") /\ cosmetic # {}
              THEN \E i \in cosmetic :
                      rarity.chars = RarityWord(SourceLore[i])
              ELSE rarity.chars = RarityWord(SourceLore[Len(SourceLore)])

\* a rune whose lore ends in a footer behind its COSMETIC line was built
C37_Witness ==
    /\ Extracted /\ IsDocument /\ SourceId = text("RUNE")
    /\ Len(SourceLore) = 2
    /\ SourceLore[2] = text("Footer")
    /\ nbt_item.exc = None
    /\ nbt_item.value.rarity = K("RARE")

CACHE_COOLDOWN_TD(cooldown) == cooldown * Minute - Seconds(1)

\* the record of the listings endpoint with the given uuid
Listing(ms, uuid) == CHOOSE d \in ActiveRecords(ms) : d.uuid = uuid

\* res['auctions'] of the page `page` of the update of `ms`: the first page
\* holds one listing, the second three (one of which does not decode in
\* every other minute), every further page one
PageRecords(ms, page) ==
    CASE page = 0 -> << Listing(ms, "u1") >>
      [] page = 1 ->
           IF (ms \div 60000) % 2 = 0
           THEN << Listing(ms, "u2"), Listing(ms, "u3"), Listing(ms, "u4") >>
           ELSE << Listing(ms, "u2"), Listing(ms, "u5"), Listing(ms, "u3") >>
      [] OTHER -> << [Listing(ms, "u1") EXCEPT !.uuid = "u6"] >>

\* some constructor of a comprehension raises
Raises(ext) == \E i \in 1..Len(ext) : ext[i].exc # None

\* the objects a comprehension has constructed
Constructed(ext) == [i \in 1..Len(ext) |-> ext[i].value]

\* check_new_auctions up to the gathering of the page requests: the probe,
\* the window and the cooldown; the answer to the probe may lack
\* lastUpdated (KeyError: return)
ObserverCheck ==
    /\ observer.pc = "idle"
    /\ observer.checks < MaxChecks
    /\ \E answer \in {"ok", "limited"} :
         LET api_last_update == FromTimestamp(feed_ms)
             lb == Seconds(CACHE_MIN_DELAY)
             ub == Seconds(CACHE_MAX_DELAY)
             enough_delay ==
                 \/ observer.last_update = Unset
                 \/ observer.last_update
                      + CACHE_COOLDOWN_TD(observer.cooldown) <= api_last_update
             in_window == /\ lb <= clock - api_last_update
                          /\ clock - api_last_update <= ub
             checked == [observer EXCEPT !.checks = @ + 1]
         IN observer' =
              IF answer = "limited"
              THEN checked
              ELSE IF in_window /\ enough_delay
              THEN \* cache_auctions(page_count=res['totalPages'])
                   [checked EXCEPT
                      !.last_update = api_last_update,
                      !.pc = "gather",
                      !.page_count = feed_pages,
                      !.pending = 1..(feed_pages - 1),
                      !.requested = 1..(feed_pages - 1),
                      !.pages = << >>,
                      !.responses = << >>,
                      !.batch_start = 0,
                      !.parsed = << >>,
                      !.yields = 0,
                      !.batches = << >>,
                      !.skipped = Unset]
              ELSE [checked EXCEPT
                      !.skipped = IF in_window THEN api_last_update ELSE @]
    /\ UNCHANGED <<clock, feed_ms, feed_pages, wrapper, notPoll>>

\* _get_active_auctions_page(page), one task of the gather: the first task
\* that raises UnexpectedUpdateError ends cache_auctions
ObserverFetch(page) ==
    /\ observer.pc = "gather"
    /\ page \in observer.pending
    /\ \E success \in {page < feed_pages, FALSE} :
         LET last_update == FromTimestamp(feed_ms)
             unexpected_update == /\ observer.last_update # Unset
                                  /\ last_update # observer.last_update
         IN observer' =
              IF ~success \/ unexpected_update
              THEN [observer EXCEPT !.pc = "idle",
                                    !.pending = {},
                                    !.aborted = observer.last_update]
              ELSE [observer EXCEPT
                      !.pending = @ \ {page},
                      !.pages = (page :> PageRecords(feed_ms, page)) @@ @]
    /\ UNCHANGED <<clock, feed_ms, feed_pages, wrapper, notPoll>>

\* the gather has every result: responses is the chain of the pages
ObserverGathered ==
    /\ observer.pc = "gather"
    /\ observer.pending = {}
    /\ observer' =
         [observer EXCEPT
            !.pc = "batching",
            !.responses = Chain([i \in 1..(observer.page_count - 1) |->
                                   observer.pages[i]])]
    /\ UNCHANGED <<clock, feed_ms, feed_pages, wrapper, notPoll>>

\* one round of `while batch_start < len(responses)`, up to its
\* asyncio.sleep(BATCH_DELAY); the history counts one round more than
\* there are records, and no further
ObserverBatch ==
    /\ observer.pc = "batching"
    /\ observer.batch_start < Len(observer.responses)
    /\ observer.yields <= Len(observer.responses)
    /\ LET batch_end == observer.batch_start + observer.batch_size
           batch == Slice(observer.responses, observer.batch_start, batch_end)
           ext == [i \in 1..Len(batch) |-> ActiveAuction(batch[i])]
       IN observer' =
            IF Raises(ext)
            THEN [observer EXCEPT !.pc = "raised",
                                  !.exc = ext[FirstRaised(ext)].exc]
            ELSE [observer EXCEPT
                    !.parsed = @ \o Constructed(ext),
                    !.batch_start = batch_end,
                    !.yields = @ + 1,
                    !.batches = Append(@, Len(ext))]
    /\ UNCHANGED <<clock, feed_ms, feed_pages, wrapper, notPoll>>

\* the rest of cache_auctions: the ended auctions (at most one has ended),
\* the clean-up, the persisting auctions and the assignments (no observer
\* is registered)
ObserverFinish ==
    /\ observer.pc = "batching"
    /\ observer.batch_start >= Len(observer.responses)
    /\ \E res \in { snapshot \in EndedSnapshots(feed_ms) :
                      Len(snapshot) <= 1 } :
         LET ended == [i \in 1..Len(res) |-> EndedAuction(res[i])]
             has_item(auction) == auction.item # NoneType
             kept_active == SelectSeq(observer.parsed, has_item)
             kept_ended == SelectSeq(Constructed(ended), has_item)
             previous_ids == { observer.active_auctions[i].auction_id :
                                 i \in 1..Len(observer.active_auctions) }
             persisted(auction) == auction.auction_id \in previous_ids
         IN observer' =
              IF Raises(ended)
              THEN [observer EXCEPT !.pc = "raised",
                                    !.exc = ended[FirstRaised(ended)].exc]
              ELSE [observer EXCEPT
                      !.pc = "idle",
                      !.persisting_auctions =
                          SelectSeq(kept_active, persisted),
                      !.active_auctions = kept_active,
                      !.ended_auctions = kept_ended,
                      !.caches = @ + 1,
                      !.cached = [T |-> observer.last_update,
                                  pages |-> observer.page_count]]
    /\ UNCHANGED <<clock, feed_ms, feed_pages, wrapper, notPoll>>

\* the feed commits an update, at least a minute after the last one
ObserverFeedUpdate ==
    /\ observer.pc # "raised"
    /\ clock - FromTimestamp(feed_ms) >= Minute
    /\ feed_ms' = clock \div 1000
    /\ feed_pages' \in 1..MaxPages
    /\ UNCHANGED <<clock, pollVars, notPoll>>

\* time passes
ObserverTick ==
    /\ observer.pc # "raised"
    /\ clock + TickStep <= MaxTicks * TickStep
    /\ clock' = clock + TickStep
    /\ UNCHANGED <<feed_ms, feed_pages, pollVars, notPoll>>

InitObserver ==
    /\ clock = 0
    /\ limit = 1
    /\ LimiterIdle
    /\ feed_pages \in 1..MaxPages
    /\ AcquireIdle
    /\ config = CHOOSE c \in Configs : TRUE
    /\ HouseIdle
    /\ BazaarIdle
    /\ NbtIdle
    /\ DbIdle
    /\ wrapper = WrapperFresh
    /\ \E batch_size \in ProcessingBatchSizes, cooldown \in CacheCooldowns :
         observer = ObserverFresh(batch_size, cooldown)

NextObserver ==
    \/ ObserverCheck
    \/ \E page \in 1..MaxPages : ObserverFetch(page)
    \/ ObserverGathered
    \/ ObserverBatch
    \/ ObserverFinish
    \/ ObserverFeedUpdate
    \/ ObserverTick

SpecObserver == InitObserver /\ [][NextObserver]_vars

(***************************************************************************)
(* Claims on AuctionHouseObserver                                          *)
(***************************************************************************)
\* the uuids of the listings of the pages 0..pages-1 of the update at T
FeedIds(T, pages) ==
    UNION { { PageRecords(T \div 1000, page)[i].uuid :
                i \in 1..Len(PageRecords(T \div 1000, page)) } :
            page \in 0..(pages - 1) }

\* the auction_ids of a list of auctions
AuctionIds(auctions) ==
    { auctions[i].auction_id : i \in 1..Len(auctions) }

\* cache_auctions is running
Caching == observer.pc \in {"gather", "batching"}

\* C39: cache_auctions(page_count) requests every page 0..page_count-1 of
\* the active-auctions endpoint, and the active_auctions it caches cover
\* the listings of all the pages the probe reported.
C39_EveryPageCached ==
    /\ Caching => observer.requested = 0..(observer.page_count - 1)
    /\ observer.caches > 0 =>
         FeedIds(observer.cached.T, observer.cached.pages)
            \subseteq AuctionIds(observer.active_auctions)

\* C40: when cache_auctions has aborted on an UnexpectedUpdateError, the
\* aborted update stays eligible: no later check_new_auctions that sees the
\* same lastUpdated inside the window [cache_min_delay, cache_max_delay]
\* declines to cache it.
C40_AbortedStaysEligible ==
    observer.aborted # Unset => observer.skipped # observer.aborted

\* responses[0:n] converted, in order
Converted(responses, n) ==
    [i \in 1..(IF n <= Len(responses) THEN n ELSE Len(responses)) |->
       ActiveAuction(responses[i]).value]

\* C31: the batch loop converts every record exactly once and in input
\* order, in batches of at most batch_size records with one yield after
\* each batch, and it terminates: it makes no more rounds than there are
\* records, for every input length and every configured batch size.
C31_BatchLoop ==
    observer.pc = "batching" =>
      /\ observer.parsed = Converted(observer.responses, observer.batch_start)
      /\ \A i \in 1..Len(observer.batches) :
           observer.batches[i] <= observer.batch_size
      /\ observer.yields = Len(observer.batches)
      /\ observer.yields <= Len(observer.responses)

(***************************************************************************)
(* ahwrapper: check_active_auctions                                        *)
(***************************************************************************)
\* the feed of SpecWrapper has up to MaxPages + 1 pages, so that a page
\* follows the page the paging starts with
WrapperPages == 0..MaxPages

\* check_active_auctions up to its first gather: the probe and, for a new
\* lastUpdated, the start of the paging loop
WrapperCheck ==
    /\ wrapper.pc = "idle"
    /\ wrapper.checks < MaxChecks
    /\ wrapper' =
         IF wrapper.last_update # feed_ms
         THEN [wrapper EXCEPT
                 !.checks = @ + 1,
                 !.last_update = feed_ms,
                 !.auctions = << >>,
                 !.page = 1,
                 !.pc = "gather",
                 !.pending = { p \in WrapperPages :
                                 /\ 1 <= p
                                 /\ p < 1 + check_active_auctions_batch_size },
                 !.results = << >>,
                 !.voided = {},
                 !.delivered = << >>]
         ELSE [wrapper EXCEPT !.checks = @ + 1]
    /\ UNCHANGED <<clock, feed_ms, feed_pages, observer, notPoll>>

\* get_active_auctions_page(page), one coroutine of the gather, for a page
\* the feed may have: [] when the answer has success false or another
\* lastUpdated
WrapperFetch(page) ==
    /\ wrapper.pc = "gather"
    /\ page \in wrapper.pending
    /\ \E success \in {page < feed_pages, FALSE} :
         LET mismatch == feed_ms # wrapper.last_update
             records == PageRecords(feed_ms, page)
             ext == [i \in 1..Len(records) |-> ActiveAuction(records[i])]
         IN wrapper' =
              IF ~success \/ mismatch
              THEN [wrapper EXCEPT
                      !.pending = @ \ {page},
                      !.results = (page :> << >>) @@ @,
                      !.voided = IF page < feed_pages
                                 THEN @ \cup {page} ELSE @]
              ELSE IF Raises(ext)
              THEN [wrapper EXCEPT !.pc = "raised",
                                   !.exc = ext[FirstRaised(ext)].exc]
              ELSE [wrapper EXCEPT
                      !.pending = @ \ {page},
                      !.results = (page :> Constructed(ext)) @@ @]
    /\ UNCHANGED <<clock, feed_ms, feed_pages, observer, notPoll>>

\* results[i] of the gather that started at `page`: a page beyond the
\* pages a feed may have is answered with success false
GatherResult(results, page) ==
    IF page \in DOMAIN results THEN results[page] ELSE << >>

\* the gather has every result: either the loop ends and every registered
\* process is called with the auctions, or the results are merged and the
\* next batch of pages is requested
WrapperGathered ==
    /\ wrapper.pc = "gather"
    /\ wrapper.pending = {}
    /\ LET results == [i \in 1..check_active_auctions_batch_size |->
                         GatherResult(wrapper.results, wrapper.page + i - 1)]
           page == wrapper.page + check_active_auctions_batch_size
       IN wrapper' =
            IF results[1] = << >>
            THEN [wrapper EXCEPT
                    !.pc = "idle",
                    !.deliveries = @ + wrapper.processes,
                    !.delivered = IF wrapper.processes > 0
                                  THEN wrapper.auctions ELSE @]
            ELSE [wrapper EXCEPT
                    !.auctions = @ \o Chain(results),
                    !.page = page,
                    !.pending = { p \in WrapperPages :
                                    /\ page <= p
                                    /\ p < page + check_active_auctions_batch_size },
                    !.results = << >>]
    /\ UNCHANGED <<clock, feed_ms, feed_pages, observer, notPoll>>

\* the feed commits its next update
WrapperFeedUpdate ==
    /\ wrapper.pc # "raised"
    /\ feed_ms < MaxSnapshots * (Minute \div 1000)
    /\ feed_ms' = feed_ms + Minute \div 1000
    /\ feed_pages' \in 1..(MaxPages + 1)
    /\ UNCHANGED <<clock, pollVars, notPoll>>

\* on_active_auctions_update(check_gaps) has registered one process
InitWrapper ==
    /\ clock = 0
    /\ limit = 1
    /\ LimiterIdle
    /\ feed_pages \in 1..(MaxPages + 1)
    /\ AcquireIdle
    /\ config = CHOOSE c \in Configs : TRUE
    /\ HouseIdle
    /\ BazaarIdle
    /\ NbtIdle
    /\ DbIdle
    /\ observer = ObserverFresh(1, 1)
    /\ wrapper = [WrapperFresh EXCEPT !.processes = 1]

NextWrapper ==
    \/ WrapperCheck
    \/ \E page \in WrapperPages : WrapperFetch(page)
    \/ WrapperGathered
    \/ WrapperFeedUpdate

SpecWrapper == InitWrapper /\ [][NextWrapper]_vars

\* C38: check_active_auctions never hands the registered processes a
\* partially merged listing set: when a page that exists in the feed has
\* answered with another lastUpdated (or success false) during the paging
\* loop, no listings of the other pages are delivered.
C38_NeverPartiallyMerged ==
    wrapper.voided # {} => wrapper.delivered = << >>

=============================================================================
